---- MODULE Spec2Model ----
\* The lending pipeline of the Exen protocol:
\*   - the loan ledger (src/credit_approval.py, class LoanFundsTransferSystem):
\*     loan accounts, escrow vault, lending pool;
\*   - the decision engine (src/credit_decision.py, class AutoDecisionEngine);
\*   - the wallet analyzer (src/credit_scorecard.py, class SolanaWalletAnalyzer).
\* The three objects share no state; each has its own specification.
\*
\* Ledger units.  USD amounts are integers in cents, token prices are cents per token,
\* interest rates are whole percents, timestamps are whole days.  A loan's
\* origination timestamp is read from the clock after its due date has been
\* computed from an earlier reading: origination_timestamp_micros holds the
\* microseconds that passed between the two readings.  Python
\* object references (a loan's collateral_deposit, the vault's deposits, the
\* collateral_deposits list all alias one CollateralDeposit object) are modelled
\* by the deposit id, with the single record stored in escrow_vault.deposits.
EXTENDS Integers, Sequences, FiniteSets, TLC

VARIABLES
    loan_accounts,         \* self.loan_accounts: loan number -> LoanAccount
    escrow_vault,          \* self.escrow_vault: EscrowAccount
    fund_transfers,        \* self.fund_transfers: list of FundsTransfer
    collateral_deposits,   \* self.collateral_deposits: list of deposit ids
    transaction_counter,   \* self.transaction_counter
    loan_counter,          \* self.loan_counter
    lending_pool_balance,  \* self.lending_pool_balance
    now,                   \* datetime.now(), in days
    repayments_accepted,   \* history: number of process_repayment calls that returned True
    lastCall,              \* history: the last call made and what it returned
    decisions,             \* engine: self.decisions
    decision_counter,      \* engine: self.decision_counter
    pending_request,       \* engine: the LoanRequest a caller has built
    lastDecide,            \* history: the last make_decision call and its result
    wallets,               \* analyzer: self.wallets
    _current_wallet,       \* analyzer: self._current_wallet
    credibility_pair,      \* analyzer: two CredibilityFactors to be scored
    lastScore              \* history: the last analyzer call and its result

ledgerVars == <<loan_accounts, escrow_vault, fund_transfers, collateral_deposits,
                transaction_counter, loan_counter, lending_pool_balance, now,
                repayments_accepted, lastCall>>
engineVars == <<decisions, decision_counter, pending_request, lastDecide>>
analyzerVars == <<wallets, _current_wallet, credibility_pair, lastScore>>

vars == <<ledgerVars, engineVars, analyzerVars>>

\* ---------------------------------------------------------------- bounds
MaxOps == 5

\* ------------------------------------------------------------- constants
None == -1
PoolInitialBalance == 10000000
\* (Decimal(100000) USD, in cents)
LockBufferDays == 30
DaysPerYear == 365
PercentBase == 100
DefaultHealthFactorPct == 150

\* ---------------------------------------------------------- input values
\* Days observed by datetime.now(): every difference of two of them divided
\* by 365 is a terminating decimal, so the Decimal interest below is exact.
DayChoices == {0, 73}
Wallets == {"BorrowerWallet1"}
LoanAmounts == {500000, 15000000}
InterestRates == {10}
CollateralAmounts == {100000}
OfferedAmounts == {40000, 100000}
\* An offer above the collateral a loan requires.
ExcessAmounts == {150000}
CreationPrices == {10}
CurrentPrices == {4, 150}
LtvRatios == {60}
RepaymentDays == {180}
LoanIds == 1..MaxOps
RepaymentDeltas == {-1, 0, 100}
\* Microseconds between two successive datetime.now() readings of one call.
ClockLags == {0, 1}

\* ------------------------------------------------------------ enum values
PENDING == "pending"
IN_PROGRESS == "in_progress"
COLLATERAL_LOCKED == "collateral_locked"
FUNDS_DISBURSED == "funds_disbursed"
COMPLETED == "completed"
FAILED == "failed"
CANCELLED == "cancelled"

EMPTY == "empty"
LOCKED == "locked"
LIQUIDATION_IN_PROGRESS == "liquidation_in_progress"
RELEASED == "released"

\* An attribute that has not been assigned yet.
Unset == "<unset>"

\* No LoanRequest has been built.
NoRequest == [none |-> TRUE]

\* No CredibilityFactors have been built.
NoFactors == [none |-> TRUE]

\* --------------------------------------------------------------- helpers
\* dict[key] = value
Put(f, k, v) == [x \in (DOMAIN f) \cup {k} |-> IF x = k THEN v ELSE f[x]]

\* The mutable fields of the system object, as one record.
State ==
    [loan_accounts |-> loan_accounts,
     escrow_vault |-> escrow_vault,
     fund_transfers |-> fund_transfers,
     collateral_deposits |-> collateral_deposits,
     transaction_counter |-> transaction_counter,
     loan_counter |-> loan_counter,
     lending_pool_balance |-> lending_pool_balance]

Install(S) ==
    /\ loan_accounts' = S.loan_accounts
    /\ escrow_vault' = S.escrow_vault
    /\ fund_transfers' = S.fund_transfers
    /\ collateral_deposits' = S.collateral_deposits
    /\ transaction_counter' = S.transaction_counter
    /\ loan_counter' = S.loan_counter
    /\ lending_pool_balance' = S.lending_pool_balance

\* ------------------------------------------------------ create_loan_account
create_loan_account(S, wallet_address, loan_amount_usd, interest_rate, collateral_amount_exen, collateral_price_usd, ltv_ratio, repayment_days, t, lag) ==
    LET loan_id == S.loan_counter + 1
        repayment_due == t + repayment_days
        loan == [loan_id |-> loan_id,
                 wallet_address |-> wallet_address,
                 loan_amount_usd |-> loan_amount_usd,
                 interest_rate |-> interest_rate,
                 collateral_amount_exen |-> collateral_amount_exen,
                 collateral_price_usd |-> collateral_price_usd,
                 ltv_ratio |-> ltv_ratio,
                 repayment_period_days |-> repayment_days,
                 origination_timestamp |-> t,
                 origination_timestamp_micros |-> lag,
                 repayment_due_date |-> repayment_due,
                 status |-> PENDING,
                 collateral_deposit |-> None,
                 funds_transfer |-> None,
                 borrowed_amount_received |-> 0,
                 repaid_amount |-> 0,
                 accrued_interest |-> 0]
    IN [state |-> [S EXCEPT !.loan_counter = loan_id,
                            !.loan_accounts = Put(@, loan_id, loan)],
        ret |-> loan_id]

\* ------------------------------------------------------- deposit_collateral
CollateralMatches_atLeast(loan, exen_amount) ==
    exen_amount >= loan.collateral_amount_exen

CollateralMatches(loan, exen_amount) ==
    exen_amount = loan.collateral_amount_exen

LinkDeposit_wrongStatus(loan, deposit_id) ==
    [loan EXCEPT !.collateral_deposit = deposit_id,
                 !.status = FUNDS_DISBURSED]

LinkDeposit(loan, deposit_id) ==
    [loan EXCEPT !.collateral_deposit = deposit_id,
                 !.status = COLLATERAL_LOCKED]

\* Add to escrow vault
AddToVault_keepTotal(vault, deposit_id, deposit, collateral_value) ==
    [vault EXCEPT !.deposits = Put(@, deposit_id, deposit),
                  !.status = LOCKED]

AddToVault(vault, deposit_id, deposit, collateral_value) ==
    [vault EXCEPT !.deposits = Put(@, deposit_id, deposit),
                  !.total_collateral_locked = @ + collateral_value,
                  !.status = LOCKED]

deposit_collateral(S, loan_id, exen_amount, current_price, t) ==
    IF loan_id \notin DOMAIN S.loan_accounts
    THEN [state |-> S, ret |-> None]
    ELSE
    LET loan == S.loan_accounts[loan_id] IN
    IF ~CollateralMatches(loan, exen_amount)
    THEN [state |-> S, ret |-> None]
    ELSE
    LET collateral_value == exen_amount * current_price
        deposit_id == S.transaction_counter
        deposit == [deposit_id |-> deposit_id,
                    loan_id |-> loan_id,
                    wallet_address |-> loan.wallet_address,
                    exen_amount |-> exen_amount,
                    exen_price |-> current_price,
                    collateral_value_usd |-> collateral_value,
                    deposit_timestamp |-> t,
                    status |-> LOCKED,
                    locked_until |-> t + loan.repayment_period_days + LockBufferDays,
                    health_factor_pct |-> DefaultHealthFactorPct]
    IN [state |->
          [S EXCEPT
             !.transaction_counter = @ + 1,
             !.escrow_vault = AddToVault(@, deposit_id, deposit, collateral_value),
             !.loan_accounts[loan_id] = LinkDeposit(@, deposit_id),
             !.collateral_deposits = Append(@, deposit_id)],
        ret |-> deposit_id]

\* -------------------------------------------------- verify_collateral_health
\* The health factor (a Decimal quotient) is kept as numerator / denominator.
\* health_factor >= Decimal('1.0'), for
\* health_factor = current_collateral_value / loan_amount_usd
IsHealthy_strict(current_collateral_value, loan_amount_usd) ==
    current_collateral_value > loan_amount_usd

IsHealthy(current_collateral_value, loan_amount_usd) ==
    current_collateral_value >= loan_amount_usd

verify_collateral_health(S, loan_id, current_exen_price) ==
    IF loan_id \notin DOMAIN S.loan_accounts
    THEN [is_healthy |-> FALSE, health_num |-> 0, health_den |-> 1]
    ELSE
    LET loan == S.loan_accounts[loan_id] IN
    IF loan.collateral_deposit = None
    THEN [is_healthy |-> FALSE, health_num |-> 0, health_den |-> 1]
    ELSE
    LET current_collateral_value == loan.collateral_amount_exen * current_exen_price
    IN [is_healthy |-> IsHealthy(current_collateral_value, loan.loan_amount_usd),
        health_num |-> current_collateral_value,
        health_den |-> loan.loan_amount_usd]

\* ------------------------------------------------------------ disburse_funds
\* _generate_tx_hash reads transfer.timestamp; sha256 of the concatenation is
\* kept as the pair of the two strings it is computed from.
_generate_tx_hash_transfer_timestamp(transfer) ==
    [raised |-> FALSE,
     tx_hash |-> <<transfer.transfer_id, transfer.transfer_timestamp>>]

_generate_tx_hash(transfer) ==
    IF "timestamp" \in DOMAIN transfer
    THEN [raised |-> FALSE,
          tx_hash |-> <<transfer.transfer_id, transfer.timestamp>>]
    ELSE [raised |-> TRUE, tx_hash |-> <<>>]

StatusAllowsDisbursement(loan) ==
    loan.status = COLLATERAL_LOCKED

PoolSufficient(S, loan) ==
    ~(S.lending_pool_balance < loan.loan_amount_usd)

RejectDisbursement_markFailed(S, loan_id) ==
    [state |-> [S EXCEPT !.loan_accounts[loan_id].status = FAILED],
     ret |-> None, raised |-> FALSE]

RejectDisbursement(S, loan_id) ==
    [state |-> S, ret |-> None, raised |-> FALSE]

disburse_funds(S, loan_id, t) ==
    IF loan_id \notin DOMAIN S.loan_accounts
    THEN [state |-> S, ret |-> None, raised |-> FALSE]
    ELSE
    LET loan == S.loan_accounts[loan_id] IN
    IF ~StatusAllowsDisbursement(loan)
    THEN RejectDisbursement(S, loan_id)
    ELSE IF ~PoolSufficient(S, loan)
    THEN RejectDisbursement(S, loan_id)
    ELSE
    LET transfer_id == S.transaction_counter
        S1 == [S EXCEPT !.transaction_counter = @ + 1]
        transfer == [transfer_id |-> transfer_id,
                     loan_id |-> loan_id,
                     from_address |-> "EXEN_LENDING_POOL_ADDRESS",
                     to_address |-> loan.wallet_address,
                     amount_usd |-> loan.loan_amount_usd,
                     transfer_timestamp |-> t,
                     status |-> IN_PROGRESS,
                     block_hash |-> <<>>,
                     tx_hash |-> <<>>]
        h == _generate_tx_hash(transfer)
    IN
    IF h.raised
    THEN [state |-> S1, ret |-> None, raised |-> TRUE]
    ELSE
    LET done == [transfer EXCEPT !.tx_hash = h.tx_hash,
                                 !.status = FUNDS_DISBURSED]
    IN [state |->
          [S1 EXCEPT
             !.lending_pool_balance = @ - loan.loan_amount_usd,
             !.loan_accounts[loan_id] =
                 [@ EXCEPT !.borrowed_amount_received = loan.loan_amount_usd,
                           !.funds_transfer = transfer_id,
                           !.status = FUNDS_DISBURSED],
             !.fund_transfers = Append(@, done)],
        ret |-> transfer_id, raised |-> FALSE]

\* ------------------------------------------------------- complete_loan_setup
MsgDeposit == "Failed to deposit collateral"
MsgHealth == "Collateral health check failed"
MsgDisburse == "Failed to disburse funds"
MsgFunded == "approved and funded successfully"

complete_loan_setup_rollback(S, loan_id, exen_amount, current_exen_price, t) ==
    LET d == deposit_collateral(S, loan_id, exen_amount, current_exen_price, t) IN
    IF d.ret = None
    THEN [state |-> d.state, ret |-> FALSE, msg |-> MsgDeposit, raised |-> FALSE]
    ELSE
    LET h == verify_collateral_health(d.state, loan_id, current_exen_price) IN
    IF ~h.is_healthy
    THEN [state |-> S, ret |-> FALSE, msg |-> MsgHealth, raised |-> FALSE]
    ELSE
    LET f == disburse_funds(d.state, loan_id, t) IN
    IF f.raised
    THEN [state |-> f.state, ret |-> FALSE, msg |-> "", raised |-> TRUE]
    ELSE IF f.ret = None
    THEN [state |-> S, ret |-> FALSE, msg |-> MsgDisburse, raised |-> FALSE]
    ELSE [state |-> [f.state EXCEPT !.loan_accounts[loan_id].status = COMPLETED],
          ret |-> TRUE, msg |-> MsgFunded, raised |-> FALSE]

complete_loan_setup(S, loan_id, exen_amount, current_exen_price, t) ==
    LET d == deposit_collateral(S, loan_id, exen_amount, current_exen_price, t) IN
    IF d.ret = None
    THEN [state |-> d.state, ret |-> FALSE, msg |-> MsgDeposit, raised |-> FALSE]
    ELSE
    LET h == verify_collateral_health(d.state, loan_id, current_exen_price) IN
    IF ~h.is_healthy
    THEN [state |-> d.state, ret |-> FALSE, msg |-> MsgHealth, raised |-> FALSE]
    ELSE
    LET f == disburse_funds(d.state, loan_id, t) IN
    IF f.raised
    THEN [state |-> f.state, ret |-> FALSE, msg |-> "", raised |-> TRUE]
    ELSE IF f.ret = None
    THEN [state |-> f.state, ret |-> FALSE, msg |-> MsgDisburse, raised |-> FALSE]
    ELSE [state |-> [f.state EXCEPT !.loan_accounts[loan_id].status = COMPLETED],
          ret |-> TRUE, msg |-> MsgFunded, raised |-> FALSE]

\* --------------------------------------------------------- process_repayment
\* loan_amount_usd * (interest_rate / 100) * (days_outstanding / 365)
AccruedInterest(loan, t) ==
    LET days_outstanding == t - loan.origination_timestamp
    IN (((loan.loan_amount_usd * loan.interest_rate) \div PercentBase)
            * days_outstanding) \div DaysPerYear

TotalOwed(loan, t) == loan.loan_amount_usd + AccruedInterest(loan, t)

RepaymentInsufficient_orEqual(repayment_amount_usd, total_owed) ==
    repayment_amount_usd <= total_owed

RepaymentInsufficient(repayment_amount_usd, total_owed) ==
    repayment_amount_usd < total_owed

ReleaseCollateral_keepTotal(S, loan) ==
    IF loan.collateral_deposit # None
    THEN [S EXCEPT
            !.escrow_vault.deposits[loan.collateral_deposit].status = RELEASED]
    ELSE S

ReleaseCollateral(S, loan) ==
    IF loan.collateral_deposit # None
    THEN LET deposit == S.escrow_vault.deposits[loan.collateral_deposit] IN
         [S EXCEPT
            !.escrow_vault.deposits[loan.collateral_deposit].status = RELEASED,
            !.escrow_vault.total_collateral_locked =
                @ - deposit.collateral_value_usd]
    ELSE S

CreditPool_debit(S, repayment_amount_usd) ==
    [S EXCEPT !.lending_pool_balance = @ - repayment_amount_usd]

CreditPool(S, repayment_amount_usd) ==
    [S EXCEPT !.lending_pool_balance = @ + repayment_amount_usd]

process_repayment(S, loan_id, repayment_amount_usd, from_address, t) ==
    IF loan_id \notin DOMAIN S.loan_accounts
    THEN [state |-> S, ret |-> FALSE]
    ELSE
    LET loan == S.loan_accounts[loan_id]
        accrued_interest == AccruedInterest(loan, t)
        total_owed == loan.loan_amount_usd + accrued_interest
    IN
    IF RepaymentInsufficient(repayment_amount_usd, total_owed)
    THEN [state |-> S, ret |-> FALSE]
    ELSE
    LET S1 == [S EXCEPT
                 !.loan_accounts[loan_id] =
                     [@ EXCEPT !.repaid_amount = repayment_amount_usd,
                               !.accrued_interest = accrued_interest]]
        S2 == ReleaseCollateral(S1, loan)
    IN [state |-> CreditPool(S2, repayment_amount_usd), ret |-> TRUE]

\* ----------------------------------------------------------- get_loan_details
\* str(Decimal): the decimal digits, most significant first, after the sign.
RECURSIVE DecimalStr(_)
DecimalStr(n) ==
    IF n < 0 THEN <<"-">> \o DecimalStr(0 - n)
    ELSE IF n < 10 THEN <<n>>
    ELSE Append(DecimalStr(n \div 10), n % 10)

\* datetime.isoformat(): the text of a timestamp, down to the microsecond.
IsoFormat(days, micros) == <<"T", days, micros>>

get_loan_details(S, loan_id) ==
    IF loan_id \notin DOMAIN S.loan_accounts
    THEN None
    ELSE
    LET loan == S.loan_accounts[loan_id] IN
    [loan_id |-> loan.loan_id,
     status |-> loan.status,
     borrower |-> loan.wallet_address,
     loan_amount |-> DecimalStr(loan.loan_amount_usd),
     interest_rate |-> DecimalStr(loan.interest_rate),
     collateral_amount |-> DecimalStr(loan.collateral_amount_exen),
     collateral_value |->
         DecimalStr(loan.collateral_amount_exen * loan.collateral_price_usd),
     ltv_ratio |-> DecimalStr(loan.ltv_ratio),
     originated |-> IsoFormat(loan.origination_timestamp,
                              loan.origination_timestamp_micros),
     due_date |-> IsoFormat(loan.repayment_due_date, 0),
     borrowed_received |-> DecimalStr(loan.borrowed_amount_received),
     repaid |-> DecimalStr(loan.repaid_amount),
     accrued_interest |-> DecimalStr(loan.accrued_interest)]

\* --------------------------------------------------------------- __init__
InitLedger ==
    /\ loan_accounts = <<>>
    /\ escrow_vault = [vault_id |-> "EXEN_ESCROW_001",
                       location |-> "escrow_vault",
                       total_collateral_locked |-> 0,
                       deposits |-> <<>>,
                       status |-> EMPTY]
    /\ fund_transfers = <<>>
    /\ collateral_deposits = <<>>
    /\ transaction_counter = 0
    /\ loan_counter = 0
    /\ lending_pool_balance = PoolInitialBalance
    /\ now = 0
    /\ repayments_accepted = 0
    /\ lastCall = [op |-> "__init__", loan_id |-> None, amount |-> 0,
                   ret |-> "None", msg |-> "", args |-> <<>>]

InitEngine ==
    /\ decisions = <<>>
    /\ decision_counter = 0
    /\ pending_request = NoRequest
    /\ lastDecide = [op |-> "__init__"]

InitAnalyzer ==
    /\ wallets = <<>>
    /\ _current_wallet = Unset
    /\ credibility_pair = NoFactors
    /\ lastScore = [op |-> "__init__"]

Init ==
    /\ InitLedger
    /\ InitEngine
    /\ InitAnalyzer

\* ---------------------------------------------------------------- actions
\* Calls that have changed the ledger so far: loans created, deposit and
\* transfer ids handed out, repayments accepted.
OpsDone == loan_counter + transaction_counter + repayments_accepted

Call(op, loan_id, amount, ret, msg) ==
    lastCall' = [op |-> op, loan_id |-> loan_id, amount |-> amount,
                 ret |-> ret, msg |-> msg, args |-> <<>>]

\* create_loan_account called while the clock moves by one of lags between
\* its two readings.
CreateLoanAccountAt(lags) ==
    /\ OpsDone < MaxOps
    /\ \E w \in Wallets, a \in LoanAmounts, r \in InterestRates,
          c \in CollateralAmounts, p \in CreationPrices, l \in LtvRatios,
          d \in RepaymentDays, lag \in lags :
          LET r1 == create_loan_account(State, w, a, r, c, p, l, d, now, lag) IN
          /\ Install(r1.state)
          /\ lastCall' = [op |-> "create_loan_account", loan_id |-> r1.ret,
                          amount |-> 0, ret |-> "LoanAccount", msg |-> "",
                          args |-> [wallet_address |-> w,
                                    loan_amount_usd |-> a,
                                    interest_rate |-> r,
                                    collateral_amount_exen |-> c,
                                    collateral_price_usd |-> p,
                                    ltv_ratio |-> l,
                                    repayment_days |-> d]]
    /\ UNCHANGED <<now, repayments_accepted, engineVars, analyzerVars>>

\* Both readings fall in the same microsecond.
CreateLoanAccount == CreateLoanAccountAt({0})

\* The clock may tick between the two readings.
CreateLoanAccountTicking == CreateLoanAccountAt(ClockLags)

\* Transfer ids handed out so far: every id of the shared counter that did not
\* go to a deposit.
TransferIdsUsed == transaction_counter - Len(collateral_deposits)

\* The loan ids a caller tries: every known loan and one unknown id.
CallerLoanIds == 1..(loan_counter + 1)

\* deposit_collateral called with one of amounts.
DepositCollateralOf(amounts) ==
    /\ OpsDone < MaxOps
    /\ \E id \in CallerLoanIds, c \in amounts, p \in CurrentPrices :
          LET r1 == deposit_collateral(State, id, c, p, now) IN
          /\ Install(r1.state)
          /\ Call("deposit_collateral", id, c,
                  IF r1.ret = None THEN "None" ELSE "CollateralDeposit", "")
    /\ UNCHANGED <<now, repayments_accepted, engineVars, analyzerVars>>

DepositCollateral == DepositCollateralOf(OfferedAmounts)

\* Offers below, equal to and above the required collateral.
DepositCollateralAnyAmount == DepositCollateralOf(OfferedAmounts \cup ExcessAmounts)

DisburseFunds ==
    /\ OpsDone < MaxOps
    /\ \E id \in CallerLoanIds :
          LET r1 == disburse_funds(State, id, now) IN
          /\ Install(r1.state)
          /\ Call("disburse_funds", id, 0,
                  IF r1.raised THEN "AttributeError"
                  ELSE IF r1.ret = None THEN "None" ELSE "FundsTransfer", "")
    /\ UNCHANGED <<now, repayments_accepted, engineVars, analyzerVars>>

CompleteLoanSetup ==
    /\ OpsDone + 1 < MaxOps
    /\ \E id \in CallerLoanIds, c \in OfferedAmounts, p \in CurrentPrices :
          LET r1 == complete_loan_setup(State, id, c, p, now) IN
          /\ Install(r1.state)
          /\ Call("complete_loan_setup", id, c,
                  IF r1.raised THEN "AttributeError"
                  ELSE IF r1.ret THEN "True" ELSE "False", r1.msg)
    /\ UNCHANGED <<now, repayments_accepted, engineVars, analyzerVars>>

\* The amounts offered: one cent short of what is owed, exactly what is owed,
\* and an overpayment.
RepaymentOffers(id) ==
    IF id \in DOMAIN loan_accounts
    THEN {TotalOwed(loan_accounts[id], now) + d : d \in RepaymentDeltas}
    ELSE {PoolInitialBalance}

ProcessRepayment ==
    /\ OpsDone < MaxOps
    /\ \E id \in CallerLoanIds :
         \E amt \in RepaymentOffers(id) :
          LET r1 == process_repayment(State, id, amt, "BorrowerWallet1", now) IN
          /\ Install(r1.state)
          /\ repayments_accepted' = repayments_accepted + (IF r1.ret THEN 1 ELSE 0)
          /\ Call("process_repayment", id, amt,
                  IF r1.ret THEN "True" ELSE "False", "")
    /\ UNCHANGED <<now, engineVars, analyzerVars>>

\* Time passes between calls.
AdvanceClock ==
    /\ \E d \in DayChoices : d > now /\ now' = d
    /\ UNCHANGED <<loan_accounts, escrow_vault, fund_transfers,
                   collateral_deposits, transaction_counter, loan_counter,
                   lending_pool_balance, repayments_accepted, lastCall,
                   engineVars, analyzerVars>>

Next ==
    \/ CreateLoanAccount
    \/ DepositCollateral
    \/ DisburseFunds
    \/ CompleteLoanSetup
    \/ ProcessRepayment
    \/ AdvanceClock

Spec == Init /\ [][Next]_vars

\* Loan creation observed with a microsecond clock.
NextClock ==
    \/ CreateLoanAccountTicking
    \/ AdvanceClock

SpecClock == Init /\ [][NextClock]_vars

\* verify_collateral_health called on its own: it assigns nothing.
VerifyCollateralHealth ==
    /\ \E id \in CallerLoanIds, p \in CurrentPrices :
          LET h == verify_collateral_health(State, id, p) IN
          lastCall' = [op |-> "verify_collateral_health", loan_id |-> id,
                       amount |-> 0,
                       ret |-> IF h.is_healthy THEN "True" ELSE "False",
                       msg |-> "",
                       args |-> [current_exen_price |-> p,
                                 health_num |-> h.health_num,
                                 health_den |-> h.health_den]]
    /\ UNCHANGED <<loan_accounts, escrow_vault, fund_transfers,
                   collateral_deposits, transaction_counter, loan_counter,
                   lending_pool_balance, now, repayments_accepted,
                   engineVars, analyzerVars>>

\* Loans are created, collateral is deposited and the health of the loans
\* is verified at the current price.
NextHealth ==
    \/ CreateLoanAccount
    \/ DepositCollateral
    \/ VerifyCollateralHealth

SpecHealth == Init /\ [][NextHealth]_vars

\* Loans are created and collateral is offered for them, in any amount.
NextDeposit ==
    \/ CreateLoanAccount
    \/ DepositCollateralAnyAmount
    \/ AdvanceClock

SpecDeposit == Init /\ [][NextDeposit]_vars

\* =========================================================== decision engine
\* Engine units.  Requested amounts and wallet flows are whole dollars,
\* collateral amounts are tokens and token prices are cents per token, so
\* that collateral_amount * collateral_token_price is in cents.  Risk
\* scores are whole points; the overall risk score, interest rates and
\* confidence are in hundredths (quantize(Decimal('0.00'))), proposed loan
\* amounts are in cents (quantize(Decimal('0.01'))).
base_ltv == 60
min_credit_score == 400
min_transactions == 3
max_loan_amount_usd == 500000
min_loan_amount_usd == 100

APPROVED == "approved"
CONDITIONAL_APPROVAL == "conditional_approval"
DENIED == "denied"
PENDING_REVIEW == "pending_review"

MINIMAL == "minimal"
LOW == "low"
MODERATE == "moderate"
HIGH == "high"
VERY_HIGH == "very_high"

\* proposed_terms=None
NoLoanTerms == [none |-> TRUE]

\* Decimal.quantize of the quotient n / d (ROUND_HALF_EVEN), n >= 0, d > 0.
RoundHalfEven(n, d) ==
    LET q == n \div d
        r == n % d
    IN IF 2 * r > d THEN q + 1
       ELSE IF 2 * r = d THEN q + (q % 2)
       ELSE q

Min(a, b) == IF a <= b THEN a ELSE b
Max(a, b) == IF a >= b THEN a ELSE b

\* ------------------------------------------------------ assess_collateral_risk
\* ltv <= bound, for ltv = borrow_amount_usd / collateral_value * 100 with
\* the collateral value in cents: borrow_amount_usd * 10000 <= bound *
\* collateral_value, written with a quotient to stay within 32 bits.
LtvAtMost_exclusive(borrow_amount_usd, collateral_value, bound) ==
    borrow_amount_usd < (bound * collateral_value + 9999) \div 10000

LtvAtMost(borrow_amount_usd, collateral_value, bound) ==
    borrow_amount_usd <= (bound * collateral_value) \div 10000

assess_collateral_risk(loan_request) ==
    LET collateral_value ==
            loan_request.collateral_amount * loan_request.collateral_token_price
        borrow == loan_request.borrow_amount_usd
    IN IF collateral_value <= 0 THEN 100
       ELSE IF LtvAtMost(borrow, collateral_value, 30) THEN 5
       ELSE IF LtvAtMost(borrow, collateral_value, 50) THEN 15
       ELSE IF LtvAtMost(borrow, collateral_value, 60) THEN 25
       ELSE IF LtvAtMost(borrow, collateral_value, 75) THEN 50
       ELSE 80

\* ---------------------------------------------------------- assess_credit_risk
assess_credit_risk(loan_request) ==
    LET score == loan_request.credit_score
    IN IF score >= 750 THEN 5
       ELSE IF score >= 650 THEN 15
       ELSE IF score >= 550 THEN 30
       ELSE IF score >= 450 THEN 60
       ELSE 85

\* ------------------------------------------------------- assess_liquidity_risk
\* outflow_coverage >= bound_tenths / 10, for
\* outflow_coverage = current_balance / (average_inflow * 0.8)
CoverageAtLeast(loan_request, bound_tenths) ==
    IF loan_request.average_inflow = 0
    THEN 1000 >= bound_tenths
    ELSE loan_request.current_balance * 100
             >= bound_tenths * 8 * loan_request.average_inflow

assess_liquidity_risk(loan_request) ==
    IF CoverageAtLeast(loan_request, 60) THEN 10
    ELSE IF CoverageAtLeast(loan_request, 30) THEN 20
    ELSE IF CoverageAtLeast(loan_request, 10) THEN 40
    ELSE IF CoverageAtLeast(loan_request, 5) THEN 65
    ELSE 90

\* ------------------------------------------------------ assess_behavioral_risk
assess_behavioral_risk(loan_request) ==
    LET frequency ==
            IF loan_request.transaction_count < 5 THEN 20
            ELSE IF loan_request.transaction_count < 20 THEN 10
            ELSE IF loan_request.transaction_count < 50 THEN 5
            ELSE 0
        success ==
            IF loan_request.transaction_success_rate < 80 THEN 25
            ELSE IF loan_request.transaction_success_rate < 95 THEN 10
            ELSE 0
        stability ==
            IF loan_request.net_flow <= 0 THEN 30
            ELSE IF 2 * loan_request.net_flow < loan_request.average_inflow THEN 15
            ELSE 0
    IN Min(frequency + success + stability, 100)

\* ----------------------------------------------------- perform_risk_assessment
RiskLevelOf_exclusive(overall_risk) ==
    IF overall_risk < 1500 THEN MINIMAL
    ELSE IF overall_risk < 3000 THEN LOW
    ELSE IF overall_risk < 5000 THEN MODERATE
    ELSE IF overall_risk < 7500 THEN HIGH
    ELSE VERY_HIGH

RiskLevelOf(overall_risk) ==
    IF overall_risk <= 1500 THEN MINIMAL
    ELSE IF overall_risk <= 3000 THEN LOW
    ELSE IF overall_risk <= 5000 THEN MODERATE
    ELSE IF overall_risk <= 7500 THEN HIGH
    ELSE VERY_HIGH

perform_risk_assessment(loan_request) ==
    LET collateral_risk == assess_collateral_risk(loan_request)
        credit_risk == assess_credit_risk(loan_request)
        liquidity_risk == assess_liquidity_risk(loan_request)
        behavioral_risk == assess_behavioral_risk(loan_request)
        overall_risk == collateral_risk * 30 + credit_risk * 35
                          + liquidity_risk * 20 + behavioral_risk * 15
    IN [collateral_risk |-> collateral_risk,
        credit_risk |-> credit_risk,
        liquidity_risk |-> liquidity_risk,
        behavioral_risk |-> behavioral_risk,
        overall_risk_score |-> overall_risk,
        risk_level |-> RiskLevelOf(overall_risk),
        key_risk_factors |->
            (IF collateral_risk > 50 THEN <<"High collateral risk">> ELSE <<>>)
         \o (IF credit_risk > 50 THEN <<"Poor credit history">> ELSE <<>>)
         \o (IF liquidity_risk > 50 THEN <<"Low cash flow coverage">> ELSE <<>>)
         \o (IF behavioral_risk > 50
             THEN <<"Concerning transaction patterns">> ELSE <<>>)]

\* -------------------------------------------------------- calculate_loan_terms
\* The tier's LTV in percent (base_ltv * 1, 0.9, 0.7, 0.5).
TierLtv(risk_level) ==
    IF risk_level \in {MINIMAL, LOW} THEN base_ltv
    ELSE IF risk_level = MODERATE THEN (base_ltv * 9) \div 10
    ELSE IF risk_level = HIGH THEN (base_ltv * 7) \div 10
    ELSE (base_ltv * 5) \div 10

TierRate(risk_level) ==
    IF risk_level = MINIMAL THEN 8
    ELSE IF risk_level = LOW THEN 10
    ELSE IF risk_level = MODERATE THEN 12
    ELSE IF risk_level = HIGH THEN 15
    ELSE 18

\* rate * (1 - (credit_score - 300) / 550 * 0.4), clamped to [5.0, 18.0], in
\* hundredths of a percent: rate * (6700 - 4 * credit_score) / 5500 * 100.
AdjustedRate(rate, credit_score) ==
    Min(Max(RoundHalfEven(rate * (6700 - 4 * credit_score), 55), 500), 1800)

\* monthly_payment and total_interest, which no caller reads, are left out.
calculate_loan_terms(loan_request, risk_assessment) ==
    LET collateral_value ==
            loan_request.collateral_amount * loan_request.collateral_token_price
        ltv == TierLtv(risk_assessment.risk_level)
        \* collateral_value * ltv / 100, in hundredths of a cent
        max_loan == collateral_value * ltv
        borrow_amount == loan_request.borrow_amount_usd * 100
        \* min(borrow_amount_usd, max_loan).quantize(Decimal('0.01'))
        loan_amount == IF loan_request.borrow_amount_usd <= max_loan \div 10000
                       THEN borrow_amount
                       ELSE RoundHalfEven(max_loan, 100)
    IN [loan_amount |-> loan_amount,
        interest_rate |-> AdjustedRate(TierRate(risk_assessment.risk_level),
                                       loan_request.credit_score),
        ltv_ratio |-> ltv * 100,
        collateral_required |-> loan_request.collateral_amount,
        liquidation_threshold |-> 100,
        repayment_period_days |-> 180]

\* --------------------------------------------------------------- make_decision
NoneStr == "<None>"

\* The first of the preliminary checks that returns: 1 credit score,
\* 2 transaction count, 3 maximum amount, 4 minimum amount, 0 none of them.
FirstGate_historyFirst(loan_request) ==
    IF loan_request.transaction_count < min_transactions THEN 2
    ELSE IF loan_request.credit_score < min_credit_score THEN 1
    ELSE IF loan_request.borrow_amount_usd > max_loan_amount_usd THEN 3
    ELSE IF loan_request.borrow_amount_usd < min_loan_amount_usd THEN 4
    ELSE 0

FirstGate(loan_request) ==
    IF loan_request.credit_score < min_credit_score THEN 1
    ELSE IF loan_request.transaction_count < min_transactions THEN 2
    ELSE IF loan_request.borrow_amount_usd > max_loan_amount_usd THEN 3
    ELSE IF loan_request.borrow_amount_usd < min_loan_amount_usd THEN 4
    ELSE 0

\* RiskAssessment(...) built by a preliminary check.
GateAssessment(credit_risk, behavioral_risk, overall, risk_level, factors) ==
    [collateral_risk |-> 0,
     credit_risk |-> credit_risk,
     liquidity_risk |-> 0,
     behavioral_risk |-> behavioral_risk,
     overall_risk_score |-> overall * 100,
     risk_level |-> risk_level,
     key_risk_factors |-> factors]

\* LoanDecision(...) returned by a preliminary check: conditions,
\* collateral_required and max_ltv keep the dataclass defaults.
GateDecision(decision_id, loan_request, gate, t) ==
    [decision_id |-> decision_id,
     request_id |-> loan_request.request_id,
     wallet_address |-> loan_request.wallet_address,
     status |-> IF gate = 2 THEN PENDING_REVIEW ELSE DENIED,
     decision_timestamp |-> t,
     risk_assessment |->
         IF gate = 1 THEN GateAssessment(100, 0, 100, VERY_HIGH, <<>>)
         ELSE IF gate = 2
         THEN GateAssessment(0, 80, 80, HIGH,
                             <<"Insufficient transaction history">>)
         ELSE GateAssessment(0, 0, 0, MINIMAL, <<>>),
     proposed_terms |-> NoLoanTerms,
     approval_reason |-> "",
     denial_reason |->
         IF gate = 1
         THEN <<"Credit score", loan_request.credit_score,
                "below minimum", min_credit_score>>
         ELSE IF gate = 2 THEN <<NoneStr>>
         ELSE IF gate = 3
         THEN <<"Loan amount exceeds maximum", max_loan_amount_usd>>
         ELSE <<"Loan amount below minimum", min_loan_amount_usd>>,
     conditions |-> <<>>,
     collateral_required |-> 0,
     max_ltv |-> 0,
     confidence_score |-> IF gate = 2 THEN 4000 ELSE 9900,
     manual_review_required |-> (gate = 2),
     manual_review_reason |->
         IF gate = 2
         THEN "Insufficient on-chain history for auto approval"
         ELSE NoneStr]

\* The branch taken on the overall risk score (in hundredths).
DetermineDecision_exclusive(overall_risk_score) ==
    IF overall_risk_score < 1500
    THEN [status |-> APPROVED, confidence |-> 9500, conditions |-> <<>>,
          approval_reason |-> "Minimal risk profile. Excellent credit history and collateral coverage."]
    ELSE IF overall_risk_score < 3000
    THEN [status |-> APPROVED, confidence |-> 9000, conditions |-> <<>>,
          approval_reason |-> "Low risk profile. Good credit score and adequate collateral."]
    ELSE IF overall_risk_score < 5000
    THEN [status |-> CONDITIONAL_APPROVAL, confidence |-> 7500,
          conditions |-> <<"Higher interest rate applied",
                           "Reduced LTV ratio",
                           "Monthly collateral health check required">>,
          approval_reason |-> "Moderate risk accepted with conditions."]
    ELSE IF overall_risk_score < 7500
    THEN [status |-> PENDING_REVIEW, confidence |-> 4500, conditions |-> <<>>,
          approval_reason |-> ""]
    ELSE [status |-> DENIED, confidence |-> 9000, conditions |-> <<>>,
          approval_reason |-> ""]

DetermineDecision(overall_risk_score) ==
    IF overall_risk_score <= 1500
    THEN [status |-> APPROVED, confidence |-> 9500, conditions |-> <<>>,
          approval_reason |-> "Minimal risk profile. Excellent credit history and collateral coverage."]
    ELSE IF overall_risk_score <= 3000
    THEN [status |-> APPROVED, confidence |-> 9000, conditions |-> <<>>,
          approval_reason |-> "Low risk profile. Good credit score and adequate collateral."]
    ELSE IF overall_risk_score <= 5000
    THEN [status |-> CONDITIONAL_APPROVAL, confidence |-> 7500,
          conditions |-> <<"Higher interest rate applied",
                           "Reduced LTV ratio",
                           "Monthly collateral health check required">>,
          approval_reason |-> "Moderate risk accepted with conditions."]
    ELSE IF overall_risk_score <= 7500
    THEN [status |-> PENDING_REVIEW, confidence |-> 4500, conditions |-> <<>>,
          approval_reason |-> ""]
    ELSE [status |-> DENIED, confidence |-> 9000, conditions |-> <<>>,
          approval_reason |-> ""]

\* The engine's mutable fields, as one record.
EngineState == [decisions |-> decisions, decision_counter |-> decision_counter]

\* self.decision_counter += 1
CountDecision_skipped(E) == E

CountDecision(E) == [E EXCEPT !.decision_counter = @ + 1]

make_decision(E, loan_request, t) ==
    LET E1 == CountDecision(E)
        decision_id == E1.decision_counter
        gate == FirstGate(loan_request)
    IN
    IF gate # 0
    THEN [state |-> E1, ret |-> GateDecision(decision_id, loan_request, gate, t)]
    ELSE
    LET risk_assessment == perform_risk_assessment(loan_request)
        loan_terms == calculate_loan_terms(loan_request, risk_assessment)
        branch == DetermineDecision(risk_assessment.overall_risk_score)
        decision ==
            [decision_id |-> decision_id,
             request_id |-> loan_request.request_id,
             wallet_address |-> loan_request.wallet_address,
             status |-> branch.status,
             decision_timestamp |-> t,
             risk_assessment |-> risk_assessment,
             proposed_terms |->
                 IF branch.status # DENIED THEN loan_terms ELSE NoLoanTerms,
             approval_reason |-> branch.approval_reason,
             denial_reason |->
                 IF branch.status # DENIED THEN <<branch.approval_reason>>
                 ELSE <<"Overall risk score",
                        risk_assessment.overall_risk_score,
                        "exceeds approval threshold. Risk factors:",
                        risk_assessment.key_risk_factors>>,
             conditions |-> branch.conditions,
             collateral_required |-> loan_request.collateral_amount,
             max_ltv |-> loan_terms.ltv_ratio,
             confidence_score |-> branch.confidence,
             manual_review_required |-> (branch.status = PENDING_REVIEW),
             manual_review_reason |-> NoneStr]
    IN [state |-> [E1 EXCEPT !.decisions = Append(@, decision)],
        ret |-> decision]

\* ------------------------------------------------------------ engine inputs
MaxDecisions == 3

CreditScores == {399, 400, 600, 800}
TransactionCounts == {2, 3, 25, 60}
BorrowAmounts == {99, 100, 3000, 3001, 5000, 5001, 6000, 6001, 7500, 7501, 500000, 500001}
RequestCollateralAmounts == {0, 100000}
CurrentBalances == {1000, 100, 40, 10}
SuccessRates == {100, 90}
NetFlows == {500, 0}

LoanRequest(score, count, borrow, collateral, balance, rate, net_flow) ==
    [request_id |-> "REQ_1",
     wallet_address |-> "BorrowerWallet1",
     collateral_amount |-> collateral,
     borrow_amount_usd |-> borrow,
     collateral_token_price |-> 10,
     credit_score |-> score,
     credit_rating |-> "good",
     total_inflow |-> 1000,
     total_outflow |-> 1000 - net_flow,
     net_flow |-> net_flow,
     current_balance |-> balance,
     transaction_success_rate |-> rate,
     transaction_count |-> count,
     average_inflow |-> 100,
     requested_at |-> 0]

Requests ==
    {LoanRequest(s, c, b, k, bal, r, n) :
        s \in CreditScores, c \in TransactionCounts, b \in BorrowAmounts,
        k \in RequestCollateralAmounts, bal \in CurrentBalances,
        r \in SuccessRates, n \in NetFlows}

\* The requests of a session of several decisions: one stopped by each
\* preliminary check, one approved and one denied on its risk.
SessionRequests ==
    {LoanRequest(399, 2, 5000, 1000, 1000, 100, 500),
     LoanRequest(400, 2, 5000, 100000, 1000, 100, 500),
     LoanRequest(800, 60, 500001, 100000, 1000, 100, 500),
     LoanRequest(800, 60, 99, 100000, 1000, 100, 500),
     LoanRequest(800, 60, 3000, 100000, 1000, 100, 500),
     LoanRequest(400, 3, 7501, 0, 10, 90, 0)}

\* ------------------------------------------------------------ engine actions
\* A caller builds the request it will have decided.
SubmitRequest ==
    /\ decision_counter < MaxDecisions
    /\ \E req \in SessionRequests : req # pending_request /\ pending_request' = req
    /\ UNCHANGED <<decisions, decision_counter, lastDecide, ledgerVars, analyzerVars>>

MakeDecision ==
    /\ decision_counter < MaxDecisions
    /\ pending_request # NoRequest
    /\ LET r1 == make_decision(EngineState, pending_request, now) IN
          /\ decisions' = r1.state.decisions
          /\ decision_counter' = r1.state.decision_counter
          /\ lastDecide' = [op |-> "make_decision",
                            loan_request |-> pending_request, ret |-> r1.ret]
    /\ UNCHANGED <<pending_request, ledgerVars, analyzerVars>>

\* assess_collateral_risk called on its own.
AssessCollateralRisk ==
    /\ pending_request # NoRequest
    /\ lastDecide' = [op |-> "assess_collateral_risk",
                      loan_request |-> pending_request,
                      ret |-> assess_collateral_risk(pending_request)]
    /\ UNCHANGED <<decisions, decision_counter, pending_request, ledgerVars, analyzerVars>>

RiskLevels == {MINIMAL, LOW, MODERATE, HIGH, VERY_HIGH}

\* calculate_loan_terms called on its own, with an assessment of any tier.
CalculateLoanTerms ==
    /\ pending_request # NoRequest
    /\ \E level \in RiskLevels :
          LET risk_assessment ==
                  [perform_risk_assessment(pending_request)
                      EXCEPT !.risk_level = level]
          IN lastDecide' = [op |-> "calculate_loan_terms",
                            loan_request |-> pending_request,
                            risk_level |-> level,
                            ret |-> calculate_loan_terms(pending_request,
                                                         risk_assessment)]
    /\ UNCHANGED <<decisions, decision_counter, pending_request, ledgerVars, analyzerVars>>

\* perform_risk_assessment called on its own.
PerformRiskAssessment ==
    /\ pending_request # NoRequest
    /\ lastDecide' = [op |-> "perform_risk_assessment",
                      loan_request |-> pending_request,
                      ret |-> perform_risk_assessment(pending_request)]
    /\ UNCHANGED <<decisions, decision_counter, pending_request, ledgerVars, analyzerVars>>

\* A session: requests are submitted and decided one after the other.
NextEngine ==
    \/ SubmitRequest
    \/ MakeDecision

SpecEngine == Init /\ [][NextEngine]_vars

\* One request, of any content, is handed to make_decision.
InitAssess ==
    /\ InitLedger
    /\ InitAnalyzer
    /\ decisions = <<>>
    /\ decision_counter = 0
    /\ lastDecide = [op |-> "__init__"]
    /\ pending_request \in Requests

NextAssess ==
    \/ MakeDecision
    \/ AssessCollateralRisk

SpecAssess == InitAssess /\ [][NextAssess]_vars

\* ------------------------------------------------ risk assessment and terms
\* Requests over the whole range of each risk factor: credit scores from 300
\* to 850, a collateral worth 10001.30, success rates below 80 and net flows
\* below half the average inflow.
TermsCreditScores == {300, 400, 600, 850}
TermsTransactionCounts == {3, 25, 60}
TermsBorrowAmounts == {100, 5000, 7501}
TermsCollateralAmounts == {0, 100000, 100013}
TermsSuccessRates == {100, 90, 70}
TermsNetFlows == {500, 40, 0}

TermsRequests ==
    {LoanRequest(s, c, b, k, bal, r, n) :
        s \in TermsCreditScores, c \in TermsTransactionCounts,
        b \in TermsBorrowAmounts, k \in TermsCollateralAmounts,
        bal \in CurrentBalances, r \in TermsSuccessRates, n \in TermsNetFlows}

InitTerms ==
    /\ InitLedger
    /\ InitAnalyzer
    /\ decisions = <<>>
    /\ decision_counter = 0
    /\ lastDecide = [op |-> "__init__"]
    /\ pending_request \in TermsRequests

NextTerms ==
    \/ PerformRiskAssessment
    \/ CalculateLoanTerms
    \/ MakeDecision

SpecTerms == InitTerms /\ [][NextTerms]_vars

\* ------------------------------------------------- ledger and engine together
\* One caller drives the ledger and the engine through the operations that
\* hand out identifiers (process_repayment reads and writes none); the calls
\* of both objects are bounded together.
IdsHandedOut == OpsDone + decision_counter

CallerCreatesLoan == IdsHandedOut < MaxOps /\ CreateLoanAccount
CallerDeposits == IdsHandedOut < MaxOps /\ DepositCollateral
CallerDisburses == IdsHandedOut < MaxOps /\ DisburseFunds
CallerCompletesSetup == IdsHandedOut < MaxOps /\ CompleteLoanSetup
CallerSubmits == IdsHandedOut < MaxOps /\ SubmitRequest
CallerDecides == IdsHandedOut < MaxOps /\ MakeDecision

NextIds ==
    \/ CallerCreatesLoan
    \/ CallerDeposits
    \/ CallerDisburses
    \/ CallerCompletesSetup
    \/ CallerSubmits
    \/ CallerDecides

SpecIds == Init /\ [][NextIds]_vars

\* ============================================================ wallet analyzer
\* Analyzer units.  Amounts and balances are tens of dollars.  A Decimal
\* quotient (an average, the success rate) is kept exact as a numerator and a
\* denominator, and every comparison of a quotient is made on the cross
\* products.
INFLOW == "inflow"
OUTFLOW == "outflow"
INTERNAL == "internal"

TransactionTypes == {INFLOW, OUTFLOW, INTERNAL}

\* ------------------------------------------------------------------ add_wallet
AnalyzerState == [wallets |-> wallets, _current_wallet |-> _current_wallet]

add_wallet(A, wallet_address, current_balance, t) ==
    [A EXCEPT !.wallets =
        Put(@, wallet_address, [address |-> wallet_address,
                                current_balance |-> current_balance,
                                transactions |-> <<>>,
                                created_at |-> t])]

\* ------------------------------------------------------------- add_transaction
add_transaction(A, wallet_address, tx_hash, timestamp, amount, transaction_type, counterparty, is_successful) ==
    IF wallet_address \notin DOMAIN A.wallets
    THEN [state |-> A, ret |-> FALSE]
    ELSE IF transaction_type \notin TransactionTypes
    THEN [state |-> A, ret |-> FALSE]
    ELSE
    LET transaction == [tx_hash |-> tx_hash,
                        timestamp |-> timestamp,
                        amount |-> amount,
                        transaction_type |-> transaction_type,
                        counterparty |-> counterparty,
                        description |-> "",
                        is_successful |-> is_successful]
    IN [state |-> [A EXCEPT !.wallets[wallet_address].transactions =
                                 Append(@, transaction)],
        ret |-> TRUE]

\* ---------------------------------------------------- _calculate_wallet_metrics
RECURSIVE SumAmounts(_)
SumAmounts(txs) ==
    IF Len(txs) = 0 THEN 0 ELSE txs[1].amount + SumAmounts(Tail(txs))

OfType(txs, transaction_type) ==
    SelectSeq(txs, LAMBDA tx : tx.transaction_type = transaction_type)

Quotient(numerator, denominator) ==
    [numerator |-> numerator, denominator |-> denominator]

\* WalletMetrics()
DefaultMetrics ==
    [total_inflow |-> 0, total_outflow |-> 0, net_flow |-> 0,
     inflow_count |-> 0, outflow_count |-> 0,
     avg_inflow |-> Quotient(0, 1), avg_outflow |-> Quotient(0, 1),
     transaction_count |-> 0, success_rate |-> Quotient(100, 1),
     current_balance |-> 0]

_calculate_wallet_metrics(A, wallet_address) ==
    IF wallet_address \notin DOMAIN A.wallets THEN DefaultMetrics
    ELSE
    LET wallet_data == A.wallets[wallet_address]
        transactions == wallet_data.transactions
        metrics == [DefaultMetrics EXCEPT
                       !.current_balance = wallet_data.current_balance]
    IN
    IF Len(transactions) = 0 THEN metrics
    ELSE
    LET inflows == OfType(transactions, INFLOW)
        outflows == OfType(transactions, OUTFLOW)
        total_inflow == SumAmounts(inflows)
        total_outflow == SumAmounts(outflows)
        successful == Len(SelectSeq(transactions, LAMBDA tx : tx.is_successful))
    IN [total_inflow |-> total_inflow,
        total_outflow |-> total_outflow,
        net_flow |-> total_inflow - total_outflow,
        inflow_count |-> Len(inflows),
        outflow_count |-> Len(outflows),
        avg_inflow |-> Quotient(total_inflow, Max(Len(inflows), 1)),
        avg_outflow |-> Quotient(total_outflow, Max(Len(outflows), 1)),
        transaction_count |-> Len(transactions),
        success_rate |-> Quotient(successful * 100, Len(transactions)),
        current_balance |-> wallet_data.current_balance]

\* ------------------------------------------ _calculate_transaction_volume_score
_calculate_transaction_volume_score_overTop(metrics) ==
    LET total_volume == metrics.total_inflow + metrics.total_outflow
    IN IF total_volume < 10 THEN 2
       ELSE IF total_volume < 50 THEN 5
       ELSE IF total_volume < 100 THEN 10
       ELSE IF total_volume < 500 THEN 15
       ELSE 25

_calculate_transaction_volume_score(metrics) ==
    LET total_volume == metrics.total_inflow + metrics.total_outflow
    IN IF total_volume < 10 THEN 2
       ELSE IF total_volume < 50 THEN 5
       ELSE IF total_volume < 100 THEN 10
       ELSE IF total_volume < 500 THEN 15
       ELSE 20

\* ----------------------------------------- _calculate_payment_consistency_score
ZeroDivisionError == "ZeroDivisionError"

\* The check that keeps the ratio from being computed without outflows.
NoOutflows_unchecked(metrics) == FALSE

NoOutflows(metrics) == metrics.outflow_count = 0

\* Decimal(inflow_count) / Decimal(outflow_count) is reached with a zero
\* divisor: the call raises.
ConsistencyRatioRaises(metrics) ==
    /\ ~(metrics.transaction_count < 3)
    /\ ~NoOutflows(metrics)
    /\ metrics.outflow_count = 0

_calculate_payment_consistency_score(metrics) ==
    IF metrics.transaction_count < 3 THEN 2
    ELSE IF NoOutflows(metrics) THEN 5
    ELSE
    LET inflows == metrics.inflow_count
        outflows == metrics.outflow_count
    IN IF inflows * 10 >= 15 * outflows THEN 18
       ELSE IF inflows * 10 >= 10 * outflows THEN 15
       ELSE IF inflows * 10 >= 7 * outflows THEN 12
       ELSE IF inflows * 10 >= 5 * outflows THEN 8
       ELSE 4

\* ------------------------------------------ _calculate_inflow_reliability_score
RECURSIVE SumSquaredDeviations(_, _)
\* sum of (x - mean) ** 2 over the amounts of txs, times mean.denominator ** 2
SumSquaredDeviations(txs, mean) ==
    IF Len(txs) = 0 THEN 0
    ELSE LET deviation == mean.denominator * txs[1].amount - mean.numerator
         IN deviation * deviation + SumSquaredDeviations(Tail(txs), mean)

_calculate_inflow_reliability_score(A, metrics) ==
    IF metrics.total_inflow = 0 THEN 2
    ELSE IF metrics.inflow_count < 2 THEN 5
    ELSE
    LET inflow_values == OfType(A.wallets[A._current_wallet].transactions, INFLOW)
        mean_inflow == metrics.avg_inflow
    IN
    IF Len(inflow_values) < 2 THEN 10
    ELSE IF mean_inflow.numerator = 0 THEN 5
    ELSE
    \* cv < c  iff  variance < c ** 2 * mean ** 2
    LET deviations == SumSquaredDeviations(inflow_values, mean_inflow)
        scaled_mean == Len(inflow_values) * mean_inflow.numerator
                           * mean_inflow.numerator
    IN IF 25 * deviations < scaled_mean THEN 18
       ELSE IF 4 * deviations < scaled_mean THEN 15
       ELSE IF deviations < scaled_mean THEN 12
       ELSE 8

\* ------------------------------------------- _calculate_balance_stability_score
\* balance_ratio >= bound, for balance_ratio = current_balance / avg_outflow
BalanceRatioAtLeast(metrics, bound) ==
    IF metrics.avg_outflow.numerator = 0 THEN 100 >= bound
    ELSE metrics.current_balance * metrics.avg_outflow.denominator
             >= bound * metrics.avg_outflow.numerator

_calculate_balance_stability_score(metrics) ==
    IF metrics.net_flow <= 0 THEN 5
    ELSE IF metrics.current_balance <= 0 THEN 2
    ELSE IF BalanceRatioAtLeast(metrics, 10) THEN 20
    ELSE IF BalanceRatioAtLeast(metrics, 5) THEN 16
    ELSE IF BalanceRatioAtLeast(metrics, 2) THEN 12
    ELSE IF BalanceRatioAtLeast(metrics, 1) THEN 8
    ELSE 4

\* ------------------------------------ _calculate_transaction_success_rate_score
SuccessRateAtLeast(metrics, bound) ==
    metrics.success_rate.numerator >= bound * metrics.success_rate.denominator

_calculate_transaction_success_rate_score(metrics) ==
    IF SuccessRateAtLeast(metrics, 98) THEN 20
    ELSE IF SuccessRateAtLeast(metrics, 95) THEN 16
    ELSE IF SuccessRateAtLeast(metrics, 90) THEN 12
    ELSE IF SuccessRateAtLeast(metrics, 80) THEN 8
    ELSE 2

\* ---------------------------------------------------- _calculate_account_age_score
_calculate_account_age_score(A, wallet_address, t) ==
    LET age_days == t - A.wallets[wallet_address].created_at
    IN IF age_days >= 365 THEN 20
       ELSE IF age_days >= 180 THEN 15
       ELSE IF age_days >= 90 THEN 10
       ELSE IF age_days >= 30 THEN 5
       ELSE 2

\* ------------------------------------------------------- generate_credit_score
EXCELLENT == "excellent"
VERY_GOOD == "very_good"
GOOD == "good"
FAIR == "fair"
POOR == "poor"

\* Lines 411-422: the average of the five factors, scaled from 0-20 to
\* 300-850 and quantized to an integer: 300 + total / 5 / 20 * 550.
CreditScore_signSlip(credibility_factors) ==
    LET total == credibility_factors.transaction_volume_score
                   + credibility_factors.payment_consistency_score
                   + credibility_factors.inflow_reliability_score
                   + credibility_factors.balance_stability_score
                   - credibility_factors.transaction_success_rate_score
    IN RoundHalfEven(600 + 11 * total + 440, 2)

CreditScore(credibility_factors) ==
    LET total == credibility_factors.transaction_volume_score
                   + credibility_factors.payment_consistency_score
                   + credibility_factors.inflow_reliability_score
                   + credibility_factors.balance_stability_score
                   + credibility_factors.transaction_success_rate_score
    IN RoundHalfEven(600 + 11 * total, 2)

RatingOf(credit_score) ==
    IF credit_score >= 750 THEN EXCELLENT
    ELSE IF credit_score >= 650 THEN VERY_GOOD
    ELSE IF credit_score >= 550 THEN GOOD
    ELSE IF credit_score >= 450 THEN FAIR
    ELSE POOR

\* interest_rate_adjustment, in tenths of a percent
RateAdjustment(rating) ==
    IF rating = EXCELLENT THEN -15
    ELSE IF rating = VERY_GOOD THEN -5
    ELSE IF rating = GOOD THEN 0
    ELSE IF rating = FAIR THEN 20
    ELSE 50

Recommendation(rating) ==
    IF rating = EXCELLENT
    THEN "Excellent on-chain history. Eligible for maximum borrowing at favorable rates."
    ELSE IF rating = VERY_GOOD
    THEN "Very good on-chain behavior. Eligible for substantial borrowing with competitive rates."
    ELSE IF rating = GOOD
    THEN "Good transaction history. Standard borrowing rates apply."
    ELSE IF rating = FAIR
    THEN "Fair on-chain activity. Limited borrowing available at higher rates."
    ELSE "Poor transaction history. Not recommended for lending at this time. Build more on-chain activity."

\* self._current_wallet = wallet_address
SetCurrentWallet_stale(A, wallet_address) ==
    IF A._current_wallet = Unset
    THEN [A EXCEPT !._current_wallet = wallet_address]
    ELSE A

SetCurrentWallet(A, wallet_address) ==
    [A EXCEPT !._current_wallet = wallet_address]

generate_credit_score(A, wallet_address, t) ==
    IF wallet_address \notin DOMAIN A.wallets
    THEN [state |-> A, ret |-> [none |-> TRUE], raised |-> ""]
    ELSE
    LET A1 == SetCurrentWallet(A, wallet_address)
        metrics == _calculate_wallet_metrics(A1, wallet_address)
        credibility_factors ==
            [transaction_volume_score |->
                 _calculate_transaction_volume_score(metrics),
             payment_consistency_score |->
                 _calculate_payment_consistency_score(metrics),
             inflow_reliability_score |->
                 _calculate_inflow_reliability_score(A1, metrics),
             balance_stability_score |->
                 _calculate_balance_stability_score(metrics),
             transaction_success_rate_score |->
                 _calculate_transaction_success_rate_score(metrics),
             account_age_score |->
                 _calculate_account_age_score(A1, wallet_address, t)]
    IN
    IF ConsistencyRatioRaises(metrics)
    THEN [state |-> A1, ret |-> [none |-> TRUE], raised |-> ZeroDivisionError]
    ELSE
    LET credit_score == CreditScore(credibility_factors)
        rating == RatingOf(credit_score)
    IN [state |-> A1,
        ret |-> [wallet_address |-> wallet_address,
                 credit_score |-> credit_score,
                 credit_rating |-> rating,
                 borrow_limit_usd |-> RoundHalfEven(1000 * credit_score, 850),
                 interest_rate_adjustment |-> RateAdjustment(rating),
                 metrics |-> metrics,
                 credibility_factors |-> credibility_factors,
                 analysis_timestamp |-> t,
                 recommendation |-> Recommendation(rating)],
        raised |-> ""]

\* ---------------------------------------------------------- analyzer inputs
MaxTransactions == 3

AnalyzerWallets == {"WalletA", "WalletB"}
OpeningBalances == {0, 1}

\* The transactions a caller records: amount, kind, success.
Tx(amount, transaction_type, is_successful) ==
    [amount |-> amount, transaction_type |-> transaction_type,
     is_successful |-> is_successful]

TransactionInputs ==
    {Tx(500, INFLOW, TRUE), Tx(40, INFLOW, TRUE), Tx(20, INFLOW, TRUE),
     Tx(20, OUTFLOW, TRUE), Tx(40, INTERNAL, TRUE), Tx(40, INFLOW, FALSE),
     Tx(40, "transfer", TRUE)}

RECURSIVE TotalTransactions(_, _)
TotalTransactions(W, addresses) ==
    IF addresses = {} THEN 0
    ELSE LET a == CHOOSE x \in addresses : TRUE
         IN Len(W[a].transactions) + TotalTransactions(W, addresses \ {a})

InstallAnalyzer(A) ==
    /\ wallets' = A.wallets
    /\ _current_wallet' = A._current_wallet

\* --------------------------------------------------------- analyzer actions
AddWallet ==
    /\ \E w \in AnalyzerWallets, b \in OpeningBalances :
          /\ InstallAnalyzer(add_wallet(AnalyzerState, w, b, now))
          /\ lastScore' = [op |-> "add_wallet"]
    /\ UNCHANGED <<credibility_pair, ledgerVars, engineVars>>

AddTransaction ==
    /\ TotalTransactions(wallets, DOMAIN wallets) < MaxTransactions
    /\ \E w \in AnalyzerWallets, tx \in TransactionInputs :
          LET r1 == add_transaction(AnalyzerState, w, "tx", now, tx.amount, tx.transaction_type, "counterparty", tx.is_successful) IN
          /\ InstallAnalyzer(r1.state)
          /\ lastScore' = [op |-> "add_transaction", ret |-> r1.ret]
    /\ UNCHANGED <<credibility_pair, ledgerVars, engineVars>>

GenerateCreditScore ==
    /\ \E w \in AnalyzerWallets :
          LET r1 == generate_credit_score(AnalyzerState, w, now) IN
          /\ InstallAnalyzer(r1.state)
          /\ lastScore' = [op |-> "generate_credit_score", wallet_address |-> w,
                           scope_before |-> _current_wallet,
                           ret |-> r1.ret, raised |-> r1.raised]
    /\ UNCHANGED <<credibility_pair, ledgerVars, engineVars>>

NextAnalyzer ==
    \/ AddWallet
    \/ AddTransaction
    \/ GenerateCreditScore

SpecAnalyzer == Init /\ [][NextAnalyzer]_vars

\* ------------------------------------------------- the score of given factors
\* Two CredibilityFactors that differ in one of the five factors, the second
\* having the larger one, are scored.
SubScores == {0, 1, 2, 19, 20}
FactorNames == {"transaction_volume_score", "payment_consistency_score", "inflow_reliability_score", "balance_stability_score", "transaction_success_rate_score"}

Factors(volume, consistency, reliability, stability, success) ==
    [transaction_volume_score |-> volume,
     payment_consistency_score |-> consistency,
     inflow_reliability_score |-> reliability,
     balance_stability_score |-> stability,
     transaction_success_rate_score |-> success,
     account_age_score |-> 2]

FactorVectors ==
    {Factors(a, b, c, d, e) :
        a \in SubScores, b \in SubScores, c \in SubScores, d \in SubScores,
        e \in SubScores}

FactorPairs ==
    {[lower |-> v, upper |-> [v EXCEPT ![n] = x]] :
        v \in FactorVectors, n \in FactorNames, x \in SubScores}

InitScoring ==
    /\ InitLedger
    /\ InitEngine
    /\ wallets = <<>>
    /\ _current_wallet = Unset
    /\ lastScore = [op |-> "__init__"]
    /\ credibility_pair \in {p \in FactorPairs : \E n \in FactorNames : p.upper[n] > p.lower[n]}

ScoreFactors ==
    /\ credibility_pair # NoFactors
    /\ lastScore.op = "__init__"
    /\ lastScore' = [op |-> "credit_score",
                     lower |-> CreditScore(credibility_pair.lower),
                     upper |-> CreditScore(credibility_pair.upper)]
    /\ UNCHANGED <<wallets, _current_wallet, credibility_pair, ledgerVars, engineVars>>

NextScoring == ScoreFactors

SpecScoring == InitScoring /\ [][NextScoring]_vars

\* ================================================================ claims

RECURSIVE SumValues(_, _)
SumValues(deposits, ids) ==
    IF ids = {} THEN 0
    ELSE LET d == CHOOSE x \in ids : TRUE
         IN deposits[d].collateral_value_usd + SumValues(deposits, ids \ {d})

\* The sum of collateral_value_usd over the vault's deposits that are Locked.
LockedValue ==
    SumValues(escrow_vault.deposits,
              {d \in DOMAIN escrow_vault.deposits :
                   escrow_vault.deposits[d].status = LOCKED})

KnownLoans == DOMAIN loan_accounts

TransfersOf(id) ==
    {i \in DOMAIN fund_transfers : fund_transfers[i].loan_id = id}

\* Every call leaves the clock alone and AdvanceClock moves it, so a step with
\* now' = now that changes some variable is the call recorded in lastCall'.
Called(op, id) ==
    /\ now' = now
    /\ lastCall'.op = op
    /\ lastCall'.loan_id = id

\* C1: in every reachable state the vault's total_collateral_locked equals
\* the sum of collateral_value_usd over the vault's deposits whose status is
\* Locked.
C1_EscrowTotalIsLockedSum ==
    escrow_vault.total_collateral_locked = LockedValue

\* C2: a loan's status changes only by the steps Pending -> CollateralLocked,
\* CollateralLocked -> FundsDisbursed and FundsDisbursed -> Completed; it
\* never moves backward and never skips a step.
StatusStep(old, new) ==
    \/ new = old
    \/ old = PENDING /\ new = COLLATERAL_LOCKED
    \/ old = COLLATERAL_LOCKED /\ new = FUNDS_DISBURSED
    \/ old = FUNDS_DISBURSED /\ new = COMPLETED

C2_StatusFollowsPath ==
    [][\A id \in KnownLoans :
          /\ id \in DOMAIN loan_accounts'
          /\ StatusStep(loan_accounts[id].status, loan_accounts'[id].status)]_vars

\* A loan that has taken the step Pending -> CollateralLocked and has since
\* been the target of a call that is out of order for the path (a repayment
\* accepted before any disbursement).
C2_Witness ==
    /\ lastCall.op = "process_repayment"
    /\ lastCall.ret = "True"
    /\ lastCall.loan_id \in KnownLoans
    /\ loan_accounts[lastCall.loan_id].status = COLLATERAL_LOCKED

\* C3: the lending pool balance is never negative.
C3_PoolNeverNegative ==
    lending_pool_balance >= 0

\* A disbursement was refused because the pool holds less than the principal,
\* after a repayment has been credited to the pool.
C3_Witness ==
    /\ lastCall.op = "disburse_funds"
    /\ lastCall.ret = "None"
    /\ lastCall.loan_id \in KnownLoans
    /\ loan_accounts[lastCall.loan_id].status = COLLATERAL_LOCKED
    /\ lending_pool_balance < loan_accounts[lastCall.loan_id].loan_amount_usd
    /\ repayments_accepted > 0

\* C4: a rejected disburse_funds call (unknown loan id, status other than
\* CollateralLocked, or pool balance below the principal) returns None and
\* leaves the pool balance, the loans and the list of fund transfers exactly
\* as they were.
DisburseMustReject(id) ==
    \/ id \notin KnownLoans
    \/ loan_accounts[id].status # COLLATERAL_LOCKED
    \/ lending_pool_balance < loan_accounts[id].loan_amount_usd

C4_RejectedDisburseChangesNothing ==
    /\ [](\A id \in LoanIds :
            DisburseMustReject(id) =>
                LET r == disburse_funds(State, id, now)
                IN r.ret = None /\ ~r.raised /\ r.state = State)
    /\ [][\A id \in LoanIds :
            (Called("disburse_funds", id) /\ lastCall'.ret = "None") =>
                /\ DisburseMustReject(id)
                /\ lending_pool_balance' = lending_pool_balance
                /\ loan_accounts' = loan_accounts
                /\ fund_transfers' = fund_transfers]_vars

\* disburse_funds has just been refused on a loan whose collateral is locked,
\* because the pool holds less than the principal.
C4_Witness ==
    /\ lastCall.op = "disburse_funds"
    /\ lastCall.ret = "None"
    /\ lastCall.loan_id \in KnownLoans
    /\ loan_accounts[lastCall.loan_id].status = COLLATERAL_LOCKED
    /\ lending_pool_balance < loan_accounts[lastCall.loan_id].loan_amount_usd

\* C5: funds are disbursed at most once per loan: at most one FundsTransfer
\* exists for any loan id, and the pool has been debited that loan's principal
\* at most once (every debit of the pool appends one transfer).
C5_DisbursedAtMostOnce ==
    /\ [](\A id \in LoanIds : Cardinality(TransfersOf(id)) <= 1)
    /\ [][lending_pool_balance' < lending_pool_balance =>
            Len(fund_transfers') = Len(fund_transfers) + 1]_vars

\* Two disbursement attempts have passed the status and pool checks for the
\* same loan, the second after a further deposit_collateral on it.
C5_Witness ==
    /\ lastCall.op = "disburse_funds"
    /\ lastCall.ret = "AttributeError"
    /\ TransferIdsUsed = 2
    /\ Len(collateral_deposits) = 2
    /\ escrow_vault.deposits[collateral_deposits[1]].loan_id = lastCall.loan_id
    /\ escrow_vault.deposits[collateral_deposits[2]].loan_id = lastCall.loan_id
    /\ collateral_deposits = <<0, 2>>

\* C6: disburse_funds on a loan whose status is CollateralLocked, with pool
\* balance >= principal, succeeds: it returns a FundsTransfer for the
\* principal carrying a simulated hash, decreases the pool balance by exactly
\* the principal, appends the transfer to fund_transfers, links it to the loan
\* and sets the loan's status to FundsDisbursed.
C6_EligibleDisburseSucceeds ==
    [][\A id \in KnownLoans :
          (/\ Called("disburse_funds", id)
           /\ loan_accounts[id].status = COLLATERAL_LOCKED
           /\ lending_pool_balance >= loan_accounts[id].loan_amount_usd)
          =>
          /\ lastCall'.ret = "FundsTransfer"
          /\ lending_pool_balance' =
                 lending_pool_balance - loan_accounts[id].loan_amount_usd
          /\ Len(fund_transfers') = Len(fund_transfers) + 1
          /\ LET transfer == fund_transfers'[Len(fund_transfers')]
             IN /\ transfer.loan_id = id
                /\ transfer.amount_usd = loan_accounts[id].loan_amount_usd
                /\ transfer.tx_hash # <<>>
                /\ loan_accounts'[id].funds_transfer = transfer.transfer_id
          /\ loan_accounts'[id].status = FUNDS_DISBURSED]_vars

\* C7: process_repayment with an amount strictly below principal + accrued
\* interest is rejected and changes nothing (deposits, escrow total, pool
\* balance, the loan's repaid amount and accrued interest); an amount exactly
\* equal to principal + accrued interest is accepted.
C7_ShortRepaymentRejected ==
    [][\A id \in KnownLoans :
          Called("process_repayment", id) =>
              LET owed == TotalOwed(loan_accounts[id], now)
                  amount == lastCall'.amount
              IN /\ amount < owed =>
                       /\ lastCall'.ret = "False"
                       /\ escrow_vault' = escrow_vault
                       /\ lending_pool_balance' = lending_pool_balance
                       /\ loan_accounts' = loan_accounts
                 /\ amount = owed => lastCall'.ret = "True"]_vars

\* A repayment one cent short of principal + accrued interest (interest has
\* accrued) has just been rejected on a loan whose deposit is Locked.
C7_Witness ==
    /\ lastCall.op = "process_repayment"
    /\ lastCall.ret = "False"
    /\ lastCall.loan_id \in KnownLoans
    /\ LET loan == loan_accounts[lastCall.loan_id]
       IN /\ AccruedInterest(loan, now) > 0
          /\ lastCall.amount = TotalOwed(loan, now) - 1
          /\ loan.collateral_deposit # None
          /\ escrow_vault.deposits[loan.collateral_deposit].status = LOCKED

\* C8: process_repayment on a loan that is still Pending or CollateralLocked
\* (no FundsTransfer yet) is rejected and leaves the pool balance, the escrow
\* vault (total and deposit statuses) and the loan unchanged.
C8_RepaymentNeedsDisbursement ==
    [][\A id \in KnownLoans :
          (/\ Called("process_repayment", id)
           /\ loan_accounts[id].status \in {PENDING, COLLATERAL_LOCKED}
           /\ loan_accounts[id].funds_transfer = None)
          =>
          /\ lastCall'.ret = "False"
          /\ lending_pool_balance' = lending_pool_balance
          /\ escrow_vault' = escrow_vault
          /\ loan_accounts' = loan_accounts]_vars

\* C10: a successful process_repayment sets the loan's linked CollateralDeposit
\* to Released, decreases the escrow running total by exactly that deposit's
\* USD value, and increases the pool balance by exactly the repayment amount.
C10_RepaymentReleasesAndCredits ==
    [][\A id \in KnownLoans :
          (Called("process_repayment", id) /\ lastCall'.ret = "True") =>
              LET dep == loan_accounts[id].collateral_deposit
              IN /\ lending_pool_balance' =
                        lending_pool_balance + lastCall'.amount
                 /\ dep # None =>
                       /\ escrow_vault'.deposits[dep].status = RELEASED
                       /\ escrow_vault'.total_collateral_locked =
                              escrow_vault.total_collateral_locked
                              - escrow_vault.deposits[dep].collateral_value_usd]_vars

\* An overpaying repayment has just been accepted on a loan with a linked
\* deposit, which is now Released.
C10_Witness ==
    /\ lastCall.op = "process_repayment"
    /\ lastCall.ret = "True"
    /\ lastCall.loan_id \in KnownLoans
    /\ LET loan == loan_accounts[lastCall.loan_id]
       IN /\ lastCall.amount > TotalOwed(loan, now)
          /\ loan.repaid_amount = lastCall.amount
          /\ loan.collateral_deposit # None
          /\ escrow_vault.deposits[loan.collateral_deposit].status = RELEASED

\* Digits of a non-negative str(Decimal) back to the number.
RECURSIVE DecimalValue(_)
DecimalValue(str) ==
    IF Len(str) = 0 THEN 0
    ELSE 10 * DecimalValue(SubSeq(str, 1, Len(str) - 1)) + str[Len(str)]

\* C11: get_loan_details called right after create_loan_account returns the
\* creation inputs (principal, interest rate, collateral amount, LTV,
\* borrower) with status Pending, and its due date is its origination
\* timestamp plus repayment_days days.
C11_DetailsReflectCreation ==
    lastCall.op = "create_loan_account" =>
        LET details == get_loan_details(State, lastCall.loan_id)
            args == lastCall.args
        IN /\ lastCall.loan_id \in DOMAIN loan_accounts
           /\ DecimalValue(details.loan_amount) = args.loan_amount_usd
           /\ DecimalValue(details.interest_rate) = args.interest_rate
           /\ DecimalValue(details.collateral_amount) = args.collateral_amount_exen
           /\ DecimalValue(details.ltv_ratio) = args.ltv_ratio
           /\ details.borrower = args.wallet_address
           /\ details.status = PENDING
           /\ details.due_date =
                  IsoFormat(details.originated[2] + args.repayment_days,
                            details.originated[3])

\* C23: a deposit_collateral call with an unknown loan id, or with an amount
\* that differs from the loan's required collateral amount (larger amounts
\* included), returns None and creates no deposit: the escrow vault
\* (deposits, total, status), the loans (status, linked deposit), the list
\* of deposits and the id counter are unchanged.
C23_RejectedDepositChangesNothing ==
    [][\A id \in CallerLoanIds :
          (/\ Called("deposit_collateral", id)
           /\ \/ id \notin KnownLoans
              \/ lastCall'.amount # loan_accounts[id].collateral_amount_exen)
          =>
          /\ lastCall'.ret = "None"
          /\ escrow_vault' = escrow_vault
          /\ loan_accounts' = loan_accounts
          /\ collateral_deposits' = collateral_deposits
          /\ transaction_counter' = transaction_counter]_vars

\* An offer above the required collateral has just been rejected on a loan
\* that holds a locked deposit.
C23_Witness ==
    /\ lastCall.op = "deposit_collateral"
    /\ lastCall.ret = "None"
    /\ lastCall.loan_id \in KnownLoans
    /\ LET loan == loan_accounts[lastCall.loan_id]
       IN /\ lastCall.amount > loan.collateral_amount_exen
          /\ loan.status = COLLATERAL_LOCKED
          /\ loan.collateral_deposit # None
          /\ escrow_vault.deposits[loan.collateral_deposit].status = LOCKED

\* C24: a deposit_collateral call with the matching amount on a loan that
\* already has a Locked deposit succeeds again: it adds a second Locked
\* CollateralDeposit to the vault, leaves the first one Locked, increases
\* the escrow total again by amount x price, and links the loan to the
\* newer deposit only.
C24_SecondDepositLocksAgain ==
    [][\A id \in KnownLoans :
          (/\ Called("deposit_collateral", id)
           /\ lastCall'.amount = loan_accounts[id].collateral_amount_exen
           /\ loan_accounts[id].collateral_deposit # None
           /\ escrow_vault.deposits[loan_accounts[id].collateral_deposit].status
                  = LOCKED)
          =>
          LET first == loan_accounts[id].collateral_deposit
              second == loan_accounts'[id].collateral_deposit
          IN /\ lastCall'.ret = "CollateralDeposit"
             /\ second # first
             /\ DOMAIN escrow_vault'.deposits
                    = DOMAIN escrow_vault.deposits \cup {second}
             /\ second \notin DOMAIN escrow_vault.deposits
             /\ escrow_vault'.deposits[second].status = LOCKED
             /\ escrow_vault'.deposits[second].loan_id = id
             /\ escrow_vault'.deposits[first] = escrow_vault.deposits[first]
             /\ escrow_vault'.deposits[second].exen_price \in CurrentPrices
             /\ escrow_vault'.total_collateral_locked =
                    escrow_vault.total_collateral_locked
                    + lastCall'.amount * escrow_vault'.deposits[second].exen_price]_vars

\* Two deposits made for one loan at different prices are both Locked, the
\* escrow total counts both and the loan is linked to the second.
C24_Witness ==
    /\ lastCall.op = "deposit_collateral"
    /\ lastCall.ret = "CollateralDeposit"
    /\ Len(collateral_deposits) = 2
    /\ LET first == escrow_vault.deposits[collateral_deposits[1]]
           second == escrow_vault.deposits[collateral_deposits[2]]
       IN /\ first.loan_id = lastCall.loan_id
          /\ second.loan_id = lastCall.loan_id
          /\ first.status = LOCKED
          /\ second.status = LOCKED
          /\ first.exen_price # second.exen_price
          /\ escrow_vault.total_collateral_locked =
                 first.collateral_value_usd + second.collateral_value_usd
          /\ loan_accounts[lastCall.loan_id].collateral_deposit
                 = second.deposit_id

\* C25: complete_loan_setup runs deposit, health verification and
\* disbursement in that order and stops at the first step that fails,
\* returning failure with that step's reason and executing no later step
\* (no disbursement after a rejected deposit or a health factor below 1.0);
\* when all three steps succeed it returns success and the loan is Completed.
C25_SetupStepsInOrder ==
    [][\A id \in CallerLoanIds :
          Called("complete_loan_setup", id) =>
              IF \/ id \notin KnownLoans
                 \/ lastCall'.amount # loan_accounts[id].collateral_amount_exen
              THEN /\ lastCall'.ret = "False"
                   /\ lastCall'.msg = MsgDeposit
                   /\ escrow_vault' = escrow_vault
                   /\ loan_accounts' = loan_accounts
                   /\ fund_transfers' = fund_transfers
                   /\ lending_pool_balance' = lending_pool_balance
                   /\ transaction_counter' = transaction_counter
              ELSE
              LET loan == loan_accounts[id]
                  deposit == escrow_vault'.deposits[loan_accounts'[id].collateral_deposit]
                  healthy == loan.collateral_amount_exen * deposit.exen_price
                                 >= loan.loan_amount_usd
                  funded == lending_pool_balance >= loan.loan_amount_usd
              IN /\ deposit.deposit_id \notin DOMAIN escrow_vault.deposits
                 /\ deposit.status = LOCKED
                 /\ ~healthy =>
                        /\ lastCall'.ret = "False"
                        /\ lastCall'.msg = MsgHealth
                        /\ loan_accounts'[id].status = COLLATERAL_LOCKED
                        /\ fund_transfers' = fund_transfers
                        /\ lending_pool_balance' = lending_pool_balance
                        /\ transaction_counter' = transaction_counter + 1
                 /\ (healthy /\ ~funded) =>
                        /\ lastCall'.ret = "False"
                        /\ lastCall'.msg = MsgDisburse
                        /\ loan_accounts'[id].status = COLLATERAL_LOCKED
                        /\ fund_transfers' = fund_transfers
                        /\ lending_pool_balance' = lending_pool_balance
                 /\ (healthy /\ funded) =>
                        /\ lastCall'.ret = "True"
                        /\ loan_accounts'[id].status = COMPLETED
                        /\ Len(fund_transfers') = Len(fund_transfers) + 1
                        /\ lending_pool_balance' =
                               lending_pool_balance - loan.loan_amount_usd]_vars

\* C26: verify_collateral_health changes no loan, escrow or pool state; for
\* a loan with a linked deposit it reports healthy exactly when
\* collateral amount x current price / principal >= 1.0, a factor of
\* exactly 1.0 being healthy; for an unknown loan or a loan without a
\* deposit it reports unhealthy with factor 0.
C26_HealthIsPureRead ==
    [][\A id \in CallerLoanIds :
          Called("verify_collateral_health", id) =>
              /\ loan_accounts' = loan_accounts
              /\ escrow_vault' = escrow_vault
              /\ lending_pool_balance' = lending_pool_balance
              /\ fund_transfers' = fund_transfers
              /\ collateral_deposits' = collateral_deposits
              /\ IF id \in KnownLoans /\ loan_accounts[id].collateral_deposit # None
                 THEN LET loan == loan_accounts[id]
                          value == loan.collateral_amount_exen
                                       * lastCall'.args.current_exen_price
                      IN /\ (lastCall'.ret = "True") <=> value >= loan.loan_amount_usd
                         /\ lastCall'.args.health_num = value
                         /\ lastCall'.args.health_den = loan.loan_amount_usd
                 ELSE /\ lastCall'.ret = "False"
                      /\ lastCall'.args.health_num = 0]_vars

\* A loan whose collateral is worth exactly its principal has been reported
\* healthy.
C26_Witness ==
    /\ lastCall.op = "verify_collateral_health"
    /\ lastCall.ret = "True"
    /\ lastCall.loan_id \in KnownLoans
    /\ loan_accounts[lastCall.loan_id].collateral_deposit # None
    /\ lastCall.args.health_num = lastCall.args.health_den
    /\ loan_accounts[lastCall.loan_id].collateral_amount_exen
           * lastCall.args.current_exen_price
           = loan_accounts[lastCall.loan_id].loan_amount_usd

\* ------------------------------------------------- claims on the engine
Decided == lastDecide.op = "make_decision"

\* No preliminary check of make_decision stops the request.
PassesGates(r) ==
    /\ r.credit_score >= 400
    /\ r.transaction_count >= 3
    /\ r.borrow_amount_usd <= 500000
    /\ r.borrow_amount_usd >= 100

\* C12: make_decision applies its four gates in the order credit score < 400
\* (Denied), transaction count < 3 (PendingReview with the manual-review
\* flag), amount > 500000 (Denied), amount < 100 (Denied), and the outcome is
\* that of the first gate that triggers: failing gates 1 and 2 is Denied,
\* failing only gate 2 is PendingReview.
C12_GatesInOrder ==
    Decided =>
        LET r == lastDecide.loan_request
            d == lastDecide.ret
        IN /\ r.credit_score < 400 =>
                  /\ d.status = DENIED
                  /\ d.denial_reason[1] = "Credit score"
           /\ (r.credit_score >= 400 /\ r.transaction_count < 3) =>
                  /\ d.status = PENDING_REVIEW
                  /\ d.manual_review_required
           /\ (/\ r.credit_score >= 400
               /\ r.transaction_count >= 3
               /\ r.borrow_amount_usd > 500000) =>
                  /\ d.status = DENIED
                  /\ d.denial_reason[1] = "Loan amount exceeds maximum"
           /\ (/\ r.credit_score >= 400
               /\ r.transaction_count >= 3
               /\ r.borrow_amount_usd < 100) =>
                  /\ d.status = DENIED
                  /\ d.denial_reason[1] = "Loan amount below minimum"

\* A request failing gate 1 and gate 2 has been denied for its credit score.
C12_Witness ==
    /\ Decided
    /\ lastDecide.loan_request.credit_score < 400
    /\ lastDecide.loan_request.transaction_count < 3
    /\ lastDecide.ret.status = DENIED

\* C13: when no gate triggers the decision follows the overall risk score:
\* <= 30 Approved (confidence 95 if <= 15, else 90), <= 50
\* ConditionalApproval with exactly three conditions, <= 75 PendingReview
\* with the manual-review flag, otherwise Denied; only ConditionalApproval
\* decisions have conditions.
C13_DecisionFollowsRiskScore ==
    Decided =>
        LET r == lastDecide.loan_request
            d == lastDecide.ret
            score == d.risk_assessment.overall_risk_score
        IN /\ PassesGates(r) =>
                  /\ score <= 3000 =>
                         /\ d.status = APPROVED
                         /\ d.confidence_score =
                                (IF score <= 1500 THEN 9500 ELSE 9000)
                  /\ (score > 3000 /\ score <= 5000) =>
                         /\ d.status = CONDITIONAL_APPROVAL
                         /\ Len(d.conditions) = 3
                  /\ (score > 5000 /\ score <= 7500) =>
                         /\ d.status = PENDING_REVIEW
                         /\ d.manual_review_required
                  /\ score > 7500 => d.status = DENIED
           /\ d.conditions # <<>> => d.status = CONDITIONAL_APPROVAL

\* A request scoring exactly 50 has been approved with conditions.
C13_Witness ==
    /\ Decided
    /\ PassesGates(lastDecide.loan_request)
    /\ lastDecide.ret.risk_assessment.overall_risk_score = 5000
    /\ lastDecide.ret.status = CONDITIONAL_APPROVAL
    /\ Len(lastDecide.ret.conditions) = 3

\* C14: a decision returned by make_decision has no proposed terms if and
\* only if it is Denied; every Approved, ConditionalApproval and
\* PendingReview decision, that of the transaction-count gate included,
\* carries LoanTerms.
C14_TermsAbsentIffDenied ==
    Decided =>
        (lastDecide.ret.proposed_terms = NoLoanTerms
            <=> lastDecide.ret.status = DENIED)

\* C15: every decision make_decision returns is appended to the decision
\* log, whichever gate or branch produced it, and the decisions logged before
\* stay in place unchanged.
C15_EveryDecisionLogged ==
    [][/\ decision_counter' # decision_counter =>
              decisions' = Append(decisions, lastDecide'.ret)
       /\ SubSeq(decisions', 1, Len(decisions)) = decisions]_vars

\* C19: assess_collateral_risk is the step function of
\* LTV = borrow / (collateral amount x price) x 100 with inclusive bounds:
\* <= 30 gives 5, <= 50 gives 15, <= 60 gives 25, <= 75 gives 50, above 80,
\* and 100 when the collateral value is <= 0; 5000 against a collateral
\* value of 10000 scores 15.
C19_CollateralRiskSteps ==
    lastDecide.op = "assess_collateral_risk" =>
        LET r == lastDecide.loan_request
            \* the collateral value, in cents
            value == r.collateral_amount * r.collateral_token_price
            \* LTV <= bound: borrow * 100 / (value / 100) <= bound
            Within(bound) == r.borrow_amount_usd <= (bound * value) \div 10000
            risk == lastDecide.ret
        IN IF value <= 0 THEN risk = 100
           ELSE /\ Within(30) => risk = 5
                /\ (~Within(30) /\ Within(50)) => risk = 15
                /\ (~Within(50) /\ Within(60)) => risk = 25
                /\ (~Within(60) /\ Within(75)) => risk = 50
                /\ ~Within(75) => risk = 80
                /\ (r.borrow_amount_usd = 5000 /\ value = 1000000) => risk = 15

\* The collateral risk of 5000 against a value of 10000 has been assessed.
C19_Witness ==
    /\ lastDecide.op = "assess_collateral_risk"
    /\ lastDecide.loan_request.borrow_amount_usd = 5000
    /\ lastDecide.loan_request.collateral_amount
           * lastDecide.loan_request.collateral_token_price = 1000000
    /\ lastDecide.ret = 15

\* C27: for every request and risk assessment calculate_loan_terms returns
\* an interest rate within [5, 18] percent and a proposed loan amount that
\* exceeds neither the requested amount nor collateral value x tier LTV / 100
\* (tier LTV 60 for Minimal and Low, 54 for Moderate, 42 for High, 30 for
\* VeryHigh), with a term of 180 days.
C27_TermsWithinCaps ==
    lastDecide.op = "calculate_loan_terms" =>
        LET r == lastDecide.loan_request
            terms == lastDecide.ret
            \* the collateral value, in cents
            value == r.collateral_amount * r.collateral_token_price
            tier == CASE lastDecide.risk_level \in {MINIMAL, LOW} -> 60
                      [] lastDecide.risk_level = MODERATE -> 54
                      [] lastDecide.risk_level = HIGH -> 42
                      [] lastDecide.risk_level = VERY_HIGH -> 30
        IN /\ terms.interest_rate >= 500
           /\ terms.interest_rate <= 1800
           /\ terms.loan_amount <= r.borrow_amount_usd * 100
           /\ terms.loan_amount * 100 <= value * tier
           /\ terms.repayment_period_days = 180

\* The risk assessment last computed on the risk path: the result of
\* perform_risk_assessment, or the one attached to a decision that no
\* preliminary check answered.
RiskAssessed ==
    \/ lastDecide.op = "perform_risk_assessment"
    \/ Decided /\ PassesGates(lastDecide.loan_request)

LastAssessment ==
    IF Decided THEN lastDecide.ret.risk_assessment ELSE lastDecide.ret

Scored ==
    /\ lastScore.op = "generate_credit_score"
    /\ lastScore.raised = ""
    /\ lastScore.ret # [none |-> TRUE]

\* C16: of two sub-score vectors in [0,20]^5 that differ in one component,
\* the one with the larger component gets a credit score that is greater
\* than or equal to the other's.
C16_ScoreMonotonic ==
    lastScore.op = "credit_score" => lastScore.upper >= lastScore.lower

\* Two vectors that differ in the balance stability factor have been scored.
C16_Witness ==
    /\ lastScore.op = "credit_score"
    /\ credibility_pair.upper.balance_stability_score
           > credibility_pair.lower.balance_stability_score
    /\ lastScore.upper > lastScore.lower

\* C17: in every report each of the five sub-scores lies in [0,20] and the
\* credit score is an integer in [300, 850].
C17_ScoresInRange ==
    Scored =>
        LET factors == lastScore.ret.credibility_factors
        IN /\ \A n \in FactorNames : factors[n] \in 0..20
           /\ lastScore.ret.credit_score \in 300..850

\* A wallet with three transactions and the top volume score has been scored.
C17_Witness ==
    /\ Scored
    /\ lastScore.ret.metrics.transaction_count = 3
    /\ lastScore.ret.credibility_factors.transaction_volume_score = 20
    /\ lastScore.ret.credibility_factors.payment_consistency_score = 18

\* The outflow transactions recorded for a wallet.
OutflowCount(w) == Len(OfType(wallets[w].transactions, OUTFLOW))

\* C18, as claimed: whenever a wallet's outflow count is zero its consistency
\* sub-score is the score of the 'outflow count == 0' branch, and no division
\* by zero occurs.
C18_ZeroOutflowBranchScore ==
    (/\ lastScore.op = "generate_credit_score"
     /\ lastScore.wallet_address \in DOMAIN wallets
     /\ OutflowCount(lastScore.wallet_address) = 0) =>
        /\ lastScore.raised = ""
        /\ lastScore.ret.credibility_factors.payment_consistency_score = 5

\* C18, amended: whenever a wallet's outflow count is zero its consistency
\* sub-score is 2 if it has fewer than three transactions and otherwise the
\* score of the 'outflow count == 0' branch, and no division by zero occurs.
C18_ZeroOutflowNoDivision ==
    (/\ lastScore.op = "generate_credit_score"
     /\ lastScore.wallet_address \in DOMAIN wallets
     /\ OutflowCount(lastScore.wallet_address) = 0) =>
        /\ lastScore.raised = ""
        /\ lastScore.ret.credibility_factors.payment_consistency_score =
               (IF Len(wallets[lastScore.wallet_address].transactions) < 3
                THEN 2 ELSE 5)

\* The wallet with a single inflow of 5000 and a balance of 10 has been scored.
C18_Witness ==
    /\ Scored
    /\ lastScore.ret.metrics.total_inflow = 500
    /\ lastScore.ret.metrics.total_outflow = 0
    /\ lastScore.ret.metrics.transaction_count = 1
    /\ lastScore.ret.metrics.current_balance = 1
    /\ lastScore.ret.credibility_factors.payment_consistency_score = 2

\* C20: no analyzer operation removes or alters a recorded transaction: a
\* wallet's transaction list only grows by appending at its end.
C20_TransactionsAppendOnly ==
    [][\A w \in DOMAIN wallets :
          /\ w \in DOMAIN wallets'
          /\ Len(wallets'[w].transactions) >= Len(wallets[w].transactions)
          /\ SubSeq(wallets'[w].transactions, 1, Len(wallets[w].transactions))
                 = wallets[w].transactions]_vars

\* The analyzer holding the record of wallet w and nothing else, as it is
\* after construction and one add_wallet.
Alone(w) ==
    [wallets |-> [x \in {w} |-> wallets[w]], _current_wallet |-> Unset]

\* C21: for a fixed wallet record generate_credit_score returns the same
\* sub-scores, score and rating whichever wallets are registered and
\* whichever wallet was scored before: the result is the one an analyzer
\* holding that record alone returns.
C21_ScoreIsolatedPerWallet ==
    (/\ lastScore.op = "generate_credit_score"
     /\ lastScore.wallet_address \in DOMAIN wallets) =>
        LET alone == generate_credit_score(Alone(lastScore.wallet_address),
                                           lastScore.wallet_address, now)
        IN /\ lastScore.raised = alone.raised
           /\ lastScore.ret = alone.ret

\* A wallet with two inflows has been scored right after another wallet,
\* which holds a different history, was scored.
C21_Witness ==
    /\ Scored
    /\ lastScore.scope_before \in DOMAIN wallets
    /\ lastScore.scope_before # lastScore.wallet_address
    /\ lastScore.ret.metrics.inflow_count = 2
    /\ Len(wallets[lastScore.scope_before].transactions) = 1
    /\ lastScore.ret.credibility_factors.inflow_reliability_score \in {8, 12, 15, 18}

\* ------------------------------------------- claims on ledger and engine
\* No two entries of a list of identifiers are equal.
Distinct(ids) ==
    \A i, j \in DOMAIN ids : i # j => ids[i] # ids[j]

\* C22: no two loan accounts share a loan id (a created loan never takes
\* the id of an existing one), no two collateral deposits share a deposit
\* id, no two fund transfers share a transfer id, and decision ids are
\* distinct and strictly increasing in the order make_decision was called,
\* calls answered by a preliminary check included.
C22_IdentifiersUnique ==
    /\ [](/\ \A id \in DOMAIN loan_accounts : loan_accounts[id].loan_id = id
          /\ Cardinality(DOMAIN loan_accounts) = loan_counter
          /\ Distinct(collateral_deposits)
          /\ Cardinality(DOMAIN escrow_vault.deposits) = Len(collateral_deposits)
          /\ \A d \in DOMAIN escrow_vault.deposits :
                 escrow_vault.deposits[d].deposit_id = d
          /\ Distinct([i \in DOMAIN fund_transfers |->
                           fund_transfers[i].transfer_id])
          /\ \A i, j \in DOMAIN decisions :
                 i < j => decisions[i].decision_id < decisions[j].decision_id)
    /\ [][/\ loan_accounts' # loan_accounts =>
                \A id \in DOMAIN loan_accounts :
                    /\ id \in DOMAIN loan_accounts'
                    /\ loan_accounts'[id].loan_id = loan_accounts[id].loan_id
          /\ Len(collateral_deposits') > Len(collateral_deposits) =>
                collateral_deposits'[Len(collateral_deposits')]
                    \notin DOMAIN escrow_vault.deposits
          /\ (lastDecide' # lastDecide /\ lastDecide'.op = "make_decision") =>
                /\ \A i \in DOMAIN decisions :
                       decisions[i].decision_id < lastDecide'.ret.decision_id
                /\ lastDecide.op = "make_decision" =>
                       lastDecide.ret.decision_id < lastDecide'.ret.decision_id]_vars

\* Two deposits have been made on one loan, and a decision answered by a
\* preliminary check has been followed by a logged one.
C22_Witness ==
    /\ loan_counter = 1
    /\ Len(collateral_deposits) = 2
    /\ escrow_vault.deposits[collateral_deposits[1]].loan_id
           = escrow_vault.deposits[collateral_deposits[2]].loan_id
    /\ decision_counter = 2
    /\ Len(decisions) = 1
    /\ lastDecide.op = "make_decision"
    /\ lastDecide.ret.decision_id = 2
    /\ decisions[1].decision_id = 2

\* C29: a loan is repaid at most once: once a process_repayment on a loan
\* has been accepted (its repaid amount is set), every further
\* process_repayment on that loan is rejected and leaves the pool balance
\* and the escrow vault unchanged, and the escrow total is never negative.
C29_RepaidAtMostOnce ==
    /\ [](escrow_vault.total_collateral_locked >= 0)
    /\ [][\A id \in KnownLoans :
             (/\ Called("process_repayment", id)
              /\ loan_accounts[id].repaid_amount > 0)
             =>
             /\ lastCall'.ret = "False"
             /\ lending_pool_balance' = lending_pool_balance
             /\ escrow_vault' = escrow_vault]_vars

\* C30: complete_loan_setup does not roll back: when it stops at the health
\* check or at the disbursement, which it does only for a collateral worth
\* less than the principal or a pool balance below the principal, the
\* deposit made by its first step is new in the vault, Locked and counted in
\* the escrow total, the loan is CollateralLocked and linked to that
\* deposit, and the pool balance is unchanged.
C30_SetupAbortKeepsDeposit ==
    [][\A id \in CallerLoanIds :
          (/\ Called("complete_loan_setup", id)
           /\ lastCall'.msg \in {MsgHealth, MsgDisburse})
          =>
          /\ lastCall'.ret = "False"
          /\ id \in KnownLoans
          /\ LET deposit_id == loan_accounts'[id].collateral_deposit
                 loan == loan_accounts[id]
             IN /\ deposit_id \notin DOMAIN escrow_vault.deposits
                /\ deposit_id \in DOMAIN escrow_vault'.deposits
                /\ LET deposit == escrow_vault'.deposits[deposit_id] IN
                   /\ deposit.status = LOCKED
                   /\ deposit.loan_id = id
                   /\ escrow_vault'.total_collateral_locked =
                          escrow_vault.total_collateral_locked
                              + deposit.collateral_value_usd
                   /\ IF lastCall'.msg = MsgHealth
                      THEN loan.collateral_amount_exen * deposit.exen_price
                               < loan.loan_amount_usd
                      ELSE lending_pool_balance < loan.loan_amount_usd
          /\ loan_accounts'[id].status = COLLATERAL_LOCKED
          /\ lending_pool_balance' = lending_pool_balance
          /\ fund_transfers' = fund_transfers]_vars

\* A setup has stopped at the disbursement for want of funds, leaving a
\* second Locked deposit on a loan in a vault that counts both.
C30_Witness ==
    /\ lastCall.op = "complete_loan_setup"
    /\ lastCall.msg = MsgDisburse
    /\ Len(collateral_deposits) = 2
    /\ \A d \in DOMAIN escrow_vault.deposits :
           escrow_vault.deposits[d].status = LOCKED
    /\ loan_accounts[lastCall.loan_id].status = COLLATERAL_LOCKED
    /\ loan_accounts[lastCall.loan_id].collateral_deposit = collateral_deposits[2]

====
